---- MODULE Spec2Model ----
(***************************************************************************)
(* Personal Slack Summarizer: the text normalizer, the conversation        *)
(* formatter, the summarization request builder, the summary renderer and  *)
(* the slash-command handlers of src/src/index.ts (three revisions of the  *)
(* file, concatenated) and src/unnamed/part_001 (a fourth revision).       *)
(* The summarizer class is src/unnamed/part_000.                           *)
(*                                                                         *)
(* A text is a sequence of one-character strings, so that the regular      *)
(* expressions of preprocessText are computed character by character and   *)
(* String.length is Len.                                                   *)
(***************************************************************************)
EXTENDS Integers, Sequences, FiniteSets, Bags, TLC

(***************************************************************************)
(* Bounds of the model.                                                    *)
(***************************************************************************)
\* most tokens concatenated into one raw message text (SpecNorm)
MaxTokens == 3
\* most messages one history call returns (besides the padded lists of SpecSum)
MaxMsgs == 1
\* most DM conversations conversations.list returns
MaxConvs == 2
MaxList == 2

(***************************************************************************)
(* Program constants.                                                      *)
(***************************************************************************)
\* messages.slice(-50)
WindowSize == 50
\* .filter(text => text.length > 5)
MinLength == 5

(***************************************************************************)
(* Character classes of the regular expressions.                           *)
(***************************************************************************)
\* \s (the whitespace characters the inputs use)
Space == {" ", "\t", "\n"}
\* [A-Z0-9]
IdChars ==
  {"A","B","C","D","E","F","G","H","I","J","K","L","M","N","O","P","Q","R","S",
   "T","U","V","W","X","Y","Z","0","1","2","3","4","5","6","7","8","9"}
\* [a-z_]
CodeChars ==
  {"a","b","c","d","e","f","g","h","i","j","k","l","m","n","o","p","q","r","s",
   "t","u","v","w","x","y","z","_"}

IsSpace(c) == c \in Space
NonSpace(c) == c \notin Space

\* the literal lit occurs in t at position i
MatchAt(t, i, lit) ==
  /\ i >= 1
  /\ i + Len(lit) - 1 <= Len(t)
  /\ \A k \in 1..Len(lit) : t[i + k - 1] = lit[k]

\* a greedy run of the character class S (of its complement if ~member)
\* starting at i ends before RunEnd
RunEnd(t, i, S, member) ==
  CHOOSE j \in i..(Len(t) + 1) :
    /\ \A k \in i..(j - 1) : (t[k] \in S) = member
    /\ (j = Len(t) + 1 \/ (t[j] \in S) # member)

HttpLit == <<"h","t","t","p",":","/","/">>
HttpsLit == <<"h","t","t","p","s",":","/","/">>
UrlPlaceholder == <<"[","U","R","L","]">>
UserPlaceholder == <<"@","u","s","e","r">>

\* /https?:\/\/[^\s]+/ matched at i: the position after the match, 0 if none
UrlMatchEnd(t, i) ==
  LET p == IF MatchAt(t, i, HttpsLit) THEN i + Len(HttpsLit)
           ELSE IF MatchAt(t, i, HttpLit) THEN i + Len(HttpLit)
           ELSE 0
  IN IF p = 0 THEN 0
     ELSE LET e == RunEnd(t, p, Space, FALSE) IN IF e > p THEN e ELSE 0

\* /<@([A-Z0-9]+)>/ matched at i: the position after the match, 0 if none
MentionMatchEnd(t, i) ==
  IF ~MatchAt(t, i, <<"<", "@">>) THEN 0
  ELSE LET e == RunEnd(t, i + 2, IdChars, TRUE)
       IN IF e > i + 2 /\ e <= Len(t) /\ t[e] = ">" THEN e + 1 ELSE 0

\* /<#[A-Z0-9]+\|([^>]+)>/ matched at i: <<position after the match, $1>>,
\* <<0, <<>>>> if none
ChannelMatch(t, i) ==
  IF ~MatchAt(t, i, <<"<", "#">>) THEN <<0, <<>>>>
  ELSE LET b == RunEnd(t, i + 2, IdChars, TRUE)
       IN IF ~(b > i + 2 /\ b <= Len(t) /\ t[b] = "|") THEN <<0, <<>>>>
          ELSE LET e == RunEnd(t, b + 1, {">"}, FALSE)
               IN IF e > b + 1 /\ e <= Len(t)
                  THEN <<e + 1, SubSeq(t, b + 1, e - 1)>>
                  ELSE <<0, <<>>>>

\* /:[a-z_]+:/ matched at i: the position after the match, 0 if none
EmojiMatchEnd(t, i) ==
  IF ~MatchAt(t, i, <<":">>) THEN 0
  ELSE LET e == RunEnd(t, i + 1, CodeChars, TRUE)
       IN IF e > i + 1 /\ e <= Len(t) /\ t[e] = ":" THEN e + 1 ELSE 0

RECURSIVE replaceUrlsFrom(_, _)
replaceUrlsFrom(t, i) ==
  IF i > Len(t) THEN <<>>
  ELSE LET e == UrlMatchEnd(t, i)
       IN IF e > 0 THEN UrlPlaceholder \o replaceUrlsFrom(t, e)
          ELSE <<t[i]>> \o replaceUrlsFrom(t, i + 1)

RECURSIVE replaceMentionsFrom(_, _)
replaceMentionsFrom(t, i) ==
  IF i > Len(t) THEN <<>>
  ELSE LET e == MentionMatchEnd(t, i)
       IN IF e > 0 THEN UserPlaceholder \o replaceMentionsFrom(t, e)
          ELSE <<t[i]>> \o replaceMentionsFrom(t, i + 1)

RECURSIVE replaceChannelsFrom(_, _)
replaceChannelsFrom(t, i) ==
  IF i > Len(t) THEN <<>>
  ELSE LET m == ChannelMatch(t, i)
       IN IF m[1] > 0 THEN <<"#">> \o m[2] \o replaceChannelsFrom(t, m[1])
          ELSE <<t[i]>> \o replaceChannelsFrom(t, i + 1)

RECURSIVE removeEmojisFrom(_, _)
removeEmojisFrom(t, i) ==
  IF i > Len(t) THEN <<>>
  ELSE LET e == EmojiMatchEnd(t, i)
       IN IF e > 0 THEN removeEmojisFrom(t, e)
          ELSE <<t[i]>> \o removeEmojisFrom(t, i + 1)

RECURSIVE collapseSpacesFrom(_, _)
collapseSpacesFrom(t, i) ==
  IF i > Len(t) THEN <<>>
  ELSE IF IsSpace(t[i])
       THEN <<" ">> \o collapseSpacesFrom(t, RunEnd(t, i, Space, TRUE))
       ELSE <<t[i]>> \o collapseSpacesFrom(t, i + 1)

\* String.prototype.trim
trim(t) ==
  LET first == RunEnd(t, 1, Space, TRUE)
  IN IF first > Len(t) THEN <<>>
     ELSE LET last == CHOOSE j \in first..Len(t) :
                        /\ NonSpace(t[j])
                        /\ \A k \in (j + 1)..Len(t) : IsSpace(t[k])
          IN SubSeq(t, first, last)

\* mutant: the pattern without its g flag, only the first match is replaced
replaceUrlsOnce(t) ==
  LET hits == {i \in 1..Len(t) : UrlMatchEnd(t, i) > 0}
  IN IF hits = {} THEN t
     ELSE LET i == CHOOSE h \in hits : \A g \in hits : h <= g
          IN SubSeq(t, 1, i - 1) \o UrlPlaceholder
               \o SubSeq(t, UrlMatchEnd(t, i), Len(t))

\* mutant: /\s\s/g for /\s+/g, whitespace is collapsed pair by pair
RECURSIVE collapsePairsFrom(_, _)
collapsePairsFrom(t, i) ==
  IF i > Len(t) THEN <<>>
  ELSE IF IsSpace(t[i]) /\ i < Len(t) /\ IsSpace(t[i + 1])
       THEN <<" ">> \o collapsePairsFrom(t, i + 2)
       ELSE <<t[i]>> \o collapsePairsFrom(t, i + 1)

cleanSpacesPairs(t) == trim(collapsePairsFrom(t, 1))

\* the five replacements of preprocessText, in source order
replaceUrls(t) == replaceUrlsFrom(t, 1)
replaceMentions(t) == replaceMentionsFrom(t, 1)
replaceChannels(t) == replaceChannelsFrom(t, 1)
removeEmojis(t) == removeEmojisFrom(t, 1)
cleanSpaces(t) == trim(collapseSpacesFrom(t, 1))

\* the map callback of preprocessText: one message's cleaned text; the text
\* after each replacement is a value of its own before the next one reads it
cleanText(t) ==
  CHOOSE cleaned \in
    {cleanSpaces(d) :
       d \in {removeEmojis(c) :
         c \in {replaceChannels(b) :
           b \in {replaceMentions(a) : a \in {replaceUrls(x) : x \in {t}}}}}} : TRUE

\* mutant: text.length >= 5
longEnoughOffByOne(t) == Len(t) >= MinLength

\* the filter callback of preprocessText
longEnough(t) == Len(t) > MinLength

\* .filter(text => text.length > 5)
RECURSIVE filterLong(_)
filterLong(s) ==
  IF s = <<>> THEN <<>>
  ELSE (IF longEnough(Head(s)) THEN <<Head(s)>> ELSE <<>>) \o filterLong(Tail(s))

\* preprocessText(messages): string[]
preprocessText(messages) ==
  CHOOSE kept \in
    {filterLong(texts) :
       texts \in {[i \in 1..Len(messages) |-> cleanText(messages[i].text)]}} : TRUE

(***************************************************************************)
(* String literals of the summarizer and the sample texts of the inputs.   *)
(***************************************************************************)
\* part_000:181  "No messages to summarize."
NoMessagesToSummarize ==
  <<"N","o"," ","m","e","s","s","a","g","e","s"," ","t","o"," ","s","u","m",
    "m","a","r","i","z","e",".">>

\* part_000:187
NoMeaningfulMessages ==
  <<"N","o"," ","m","e","a","n","i","n","g","f","u","l"," ","m","e","s","s",
    "a","g","e","s"," ","f","o","u","n","d"," ","t","o"," ","s","u","m","m",
    "a","r","i","z","e",".">>

\* part_000:218
UnableToGenerate ==
  <<"U","n","a","b","l","e"," ","t","o"," ","g","e","n","e","r","a","t","e",
    " ","s","u","m","m","a","r","y",".">>

\* part_000:225 (after the leading emoji)
QuotaExceeded ==
  <<"O","p","e","n","A","I"," ","A","P","I"," ","q","u","o","t","a"," ","e",
    "x","c","e","e","d","e","d","."," ","P","l","e","a","s","e"," ","c","h",
    "e","c","k"," ","y","o","u","r"," ","b","i","l","l","i","n","g"," ","s",
    "e","t","t","i","n","g","s",".">>

\* part_000:227 (after the leading emoji)
InvalidApiKey ==
  <<"I","n","v","a","l","i","d"," ","O","p","e","n","A","I"," ","A","P","I",
    " ","k","e","y","."," ","P","l","e","a","s","e"," ","c","h","e","c","k",
    " ","y","o","u","r"," ","c","o","n","f","i","g","u","r","a","t","i","o",
    "n",".">>

\* part_000:229 (after the leading emoji)
ErrorGeneratingPrefix ==
  <<"E","r","r","o","r"," ","g","e","n","e","r","a","t","i","n","g"," ","A",
    "I"," ","s","u","m","m","a","r","y",":"," ">>

\* part_000:156
UnknownUser ==
  <<"U","n","k","n","o","w","n"," ","U","s","e","r">>

TextCheckUrl ==
  <<"c","h","e","c","k"," ","h","t","t","p","s",":","/","/","x",".","c","o",
    "m"," ","n","o","w">>

TextOk ==
  <<"o","k">>

TextThanks ==
  <<"<","@","U","2",">"," ","t","h","a","n","k","s","!">>

TextDeploy ==
  <<"d","e","p","l","o","y"," ","d","o","n","e">>

ContentPadded ==
  <<" ","T","e","a","m"," ","w","i","l","l"," ","s","h","i","p",".","\n">>

ContentBlank ==
  <<" "," ">>

MsgRateLimit ==
  <<"R","a","t","e"," ","l","i","m","i","t"," ","r","e","a","c","h","e","d">>

MsgNoChoices ==
  <<"C","a","n","n","o","t"," ","r","e","a","d"," ","p","r","o","p","e","r",
    "t","i","e","s"," ","o","f"," ","u","n","d","e","f","i","n","e","d"," ",
    "(","r","e","a","d","i","n","g"," ","'","m","e","s","s","a","g","e","'",
    ")">>

(***************************************************************************)
(* Tokens of the raw texts the normalizer is run on.                       *)
(***************************************************************************)
TokHttp ==
  <<"h","t","t","p",":","/","/","a",".","b">>

TokHttps ==
  <<"h","t","t","p","s",":","/","/","c">>

TokBareHttp ==
  <<"h","t","t","p",":","/","/">>

TokMention ==
  <<"<","@","U","1",">">>

TokChannel ==
  <<"<","#","C","1","|","d","e","v",">">>

TokEmoji ==
  <<":","o","k","_","h","a","n","d",":">>

TokSmiley ==
  <<":",")">>

TokSpace ==
  <<" ">>

TokTab ==
  <<"\t">>

TokHi ==
  <<"h","i">>

TokAbc ==
  <<"a","b","c">>

TokColon ==
  <<":">>

\* the text of TokHttp with an emoji shortcode inside its slashes
TokSplitUrl ==
  <<"h","t","t","p",":","/",":","x",":","/","a",".","b">>

TokWide ==
  <<" ","\t"," "," ">>

Tokens ==
  {TokHttp, TokHttps, TokBareHttp, TokMention, TokChannel, TokEmoji, TokSmiley,
   TokSpace, TokTab, TokHi, TokAbc, TokColon, TokSplitUrl, TokWide}

RECURSIVE TokenStrings(_)
TokenStrings(n) ==
  IF n = 0 THEN {<<>>}
  ELSE LET shorter == TokenStrings(n - 1)
       IN shorter \cup {s \o t : s \in shorter, t \in Tokens}

RawTexts == TokenStrings(MaxTokens)

(***************************************************************************)
(* Messages (SlackMessage), users and conversations of the inputs.         *)
(***************************************************************************)
NoBot == ""
Undefined == "<undefined>"

MsgCheckUrl == [text |-> TextCheckUrl, user |-> "U1", ts |-> 1000, bot_id |-> NoBot]
MsgOk == [text |-> TextOk, user |-> "U2", ts |-> 1001, bot_id |-> NoBot]
MsgThanks == [text |-> TextThanks, user |-> "U2", ts |-> 90000, bot_id |-> NoBot]
MsgBot == [text |-> TextDeploy, user |-> "U3", ts |-> 1002, bot_id |-> "B1"]
MsgEmpty == [text |-> <<>>, user |-> "U1", ts |-> 1003, bot_id |-> NoBot]

\* what conversations.history may return
RawSamples == {MsgCheckUrl, MsgOk, MsgThanks, MsgBot, MsgEmpty}
\* what a caller of generateOpenAISummary passes (already filtered)
Samples == {MsgCheckUrl, MsgOk, MsgThanks}

RECURSIVE SeqsUpTo(_, _)
SeqsUpTo(S, n) ==
  IF n <= 0 THEN {<<>>}
  ELSE LET shorter == SeqsUpTo(S, n - 1)
       IN shorter \cup {Append(s, x) : s \in shorter, x \in S}

RealName(u) == IF u = "U1" THEN <<"A","n","n">> ELSE <<"B","o","b">>
HandleName(u) == IF u = "U1" THEN <<"a","n","n">> ELSE <<"b","o","b">>

ConvSamples ==
  {[id |-> "D1", user |-> "U1"], [id |-> "D2", user |-> "U2"],
   [id |-> "D3", user |-> ""]}

(***************************************************************************)
(* State.                                                                  *)
(***************************************************************************)
VARIABLES
  variant,            \* which revision of the handlers runs (rev1..rev3: index.ts, rev4: part_001)
  route,              \* "summarize" | "my-summary" | "direct" | "normalize"
  req,                \* req.body: channel_id, user_id, response_url
  pc,                 \* where the command is
  detached,           \* the pipeline runs in the un-awaited async IIFE
  responses,          \* every res.send / res.json call: status, body, sent
  calls,              \* the external calls started, in order
  logs,               \* the console.error messages written
  unhandled,          \* a promise was rejected with nothing to catch it
  messages,           \* the messages the summarize path works on
  convs,              \* getAllMyDMs: the conversations to fetch
  convIdx,            \* getAllMyDMs: the loop position
  allDMs,             \* getAllMyDMs: <<user, messages>> in insertion order
  conversationType,   \* the label handed to generatePersonalSummary
  idx,                \* formatMessagesForAI: the loop position in the window
  formattedMessages,  \* formatMessagesForAI: the lines pushed so far
  prompt,             \* what chat.completions.create was called with
  completion,         \* the outcome of chat.completions.create
  aiSummary,          \* what generateOpenAISummary returned
  lookups,            \* formatMessagesForAI: the outcome of each users.info call so far
  fetched,            \* the messages conversations.history answered with, before the filter (a bag)
  myUserId,           \* /summarize-my-chats: the user id the summarizer is built with
  summarizers,        \* every PersonalSlackSummarizer constructed so far: its myUserId field
  self,               \* the command's `summarizer`: a position in summarizers, 0 before it is built
  other,              \* the command that waits while this one runs (two commands at once)
  summary,            \* what summarizeChannel / summarizeAllMyDMs returned
  deliveries,         \* every delivery attempt: target, text, failed
  raw,                \* normalizer: the raw text
  ntext,              \* normalizer: the text after the steps applied so far
  nstage,             \* normalizer: the number of steps applied
  nout                \* normalizer: preprocessText's result array

vars ==
  <<variant, route, req, pc, detached, responses, calls, logs, unhandled,
    messages, convs, convIdx, allDMs, conversationType, idx, formattedMessages,
    prompt, completion, aiSummary, lookups, fetched, myUserId, summarizers, self,
    other, summary, deliveries, raw, ntext, nstage, nout>>

cmdVars == <<variant, req, detached, responses, logs, unhandled, convs, convIdx,
             allDMs, conversationType, summary, deliveries>>
normVars == <<raw, ntext, nstage, nout>>
sumVars == <<messages, idx, formattedMessages, prompt, completion, aiSummary>>
traceVars == <<lookups, fetched>>
chatVars == <<myUserId>>
heapVars == <<summarizers, self>>
loopVars == <<other>>

Revisions == {"rev1", "rev2", "rev3", "rev4"}
Routes == {"summarize", "my-summary"}
ChatsRoute == "summarize-my-chats"
CallbackUrl == "https://hooks.slack.com/commands/T1/1"

NoSummary == [kind |-> "none"]
NoCompletion == [kind |-> "none", content |-> <<>>, code |-> "", message |-> <<>>]
NoPrompt == [type |-> "none", transcript |-> <<>>]
NoText == <<"<none>">>

\* JavaScript truthiness of a string-or-undefined value
Truthy(v) == v # Undefined /\ v # ""

(***************************************************************************)
(* The summarizer: src/unnamed/part_000.                                   *)
(***************************************************************************)
\* mutant: one summarizer for the process, set up again by every command
newSummarizerShared(heap, userId) == <<[myUserId |-> userId]>>

\* the constructor: a new object with this.myUserId = myUserId
newSummarizer(heap, userId) == Append(heap, [myUserId |-> userId])

\* mutant: messages.filter(msg => msg.text)
RECURSIVE filterMessagesText(_)
filterMessagesText(ms) ==
  IF ms = <<>> THEN <<>>
  ELSE (IF Head(ms).text # <<>> THEN <<Head(ms)>> ELSE <<>>) \o filterMessagesText(Tail(ms))

\* messages.filter(msg => msg.text && !msg.bot_id)
RECURSIVE filterMessages(_)
filterMessages(ms) ==
  IF ms = <<>> THEN <<>>
  ELSE (IF Head(ms).text # <<>> /\ Head(ms).bot_id = NoBot THEN <<Head(ms)>> ELSE <<>>)
       \o filterMessages(Tail(ms))

\* getChannelMessages on the outcome r of conversations.history: the catch
\* block returns []
getChannelMessages(r) == IF r.ok THEN filterMessages(r.messages) ELSE <<>>

\* what conversations.history may answer with at most n messages
HistoryResults(n) ==
  {[ok |-> FALSE, messages |-> <<>>]}
    \cup {[ok |-> TRUE, messages |-> ms] : ms \in SeqsUpTo(RawSamples, n)}

\* getDMMessages on the outcome of conversations.open and the outcome r of
\* conversations.history: the catch block returns []
getDMMessages(open, r) ==
  IF open = "ok" /\ r.ok THEN filterMessages(r.messages) ELSE <<>>

\* a history longer than the window by one message, in the order
\* conversations.history answers in: the most recent message first
NewestFirst(n) ==
  [i \in 1..n |-> [text |-> IF i = 1 THEN TextThanks ELSE TextCheckUrl,
                   user |-> IF i = 1 THEN "U2" ELSE "U1",
                   ts |-> 1000 + n - i,
                   bot_id |-> NoBot]]

\* the channel and the user whose conversations hold more messages than the
\* window
Busy == {"C2", "U3"}

\* the channel and the user whose conversations hold a bot's post and a message
\* without text between the messages of two users
Noisy == {"C3", "U4"}
NoisyHistory == <<MsgBot, MsgCheckUrl, MsgEmpty, MsgThanks>>

\* what conversations.history may answer when the one conversation conv is
\* summarized
OneHistoryResults(conv) ==
  HistoryResults(MaxMsgs)
    \cup (IF conv \in Busy
          THEN {[ok |-> TRUE, messages |-> NewestFirst(WindowSize + 1)]}
          ELSE {})
    \cup (IF conv \in Noisy THEN {[ok |-> TRUE, messages |-> NoisyHistory]} ELSE {})

\* the messages of the answer r put with the ones of the answers before it
RECURSIVE tally(_, _)
tally(bag, ms) ==
  IF ms = <<>> THEN bag ELSE tally(bag (+) SetToBag({Head(ms)}), Tail(ms))

keep(bag, r) == IF r.ok THEN tally(bag, r.messages) ELSE bag

\* getUserInfo on the outcome o of users.info
UserInfoOutcomes == {"real_name", "name", "none", "throw"}

\* mutant: the catch block falls back on the handle
getUserInfoHandle(userId, o) ==
  CASE o = "real_name" -> RealName(userId)
    [] o = "none" -> UnknownUser
    [] OTHER -> HandleName(userId)

getUserInfo(userId, o) ==
  CASE o = "real_name" -> RealName(userId)
    [] o = "name" -> HandleName(userId)
    [] OTHER -> UnknownUser

\* the positions of a window of n messages at which users.info is let to answer
\* anything; at the others it answers with the real name
FaultPositions(n) == {1, 2, n}
LookupOutcomes(n, i) ==
  IF i \in FaultPositions(n) THEN UserInfoOutcomes ELSE {"real_name"}

\* the runs that keep the outcome of every users.info call: those that call the
\* summarizer's methods directly
Traced(v) == v = "none"

\* mutant: no window
sliceAll(ms) == ms

\* mutant: messages.slice(0, 50)
sliceFirst(ms) == IF Len(ms) <= WindowSize THEN ms ELSE SubSeq(ms, 1, WindowSize)

\* messages.slice(-50)
slice(ms) ==
  IF Len(ms) <= WindowSize THEN ms ELSE SubSeq(ms, Len(ms) - WindowSize + 1, Len(ms))

\* `${userName}: ${cleanText}`
formatLine(userName, text) == userName \o <<":", " ">> \o text

\* formatMessagesForAI, one iteration: the lines after message msg
pushLine(lines, msg, userName) ==
  CHOOSE pushed \in
    {IF cleaned # <<>> THEN Append(lines, formatLine(userName, cleaned[1])) ELSE lines :
       cleaned \in {preprocessText(<<msg>>)}} : TRUE

\* formattedMessages.join('\n')
RECURSIVE join(_)
join(lines) ==
  IF lines = <<>> THEN <<>>
  ELSE IF Len(lines) = 1 THEN lines[1]
  ELSE lines[1] \o <<"\n">> \o join(Tail(lines))

\* what chat.completions.create may do
CompletionOutcomes ==
  {[kind |-> "content", content |-> c, code |-> "", message |-> <<>>] :
      c \in {ContentPadded, ContentBlank}}
    \cup {[kind |-> "nochoices", content |-> <<>>, code |-> "", message |-> MsgNoChoices]}
    \cup {[kind |-> "error", content |-> <<>>, code |-> c, message |-> MsgRateLimit] :
            c \in {"insufficient_quota", "invalid_api_key", "rate_limit_exceeded"}}

\* mutant: the two fixed messages swapped
errorSummarySwapped(code, message) ==
  IF code = "insufficient_quota" THEN InvalidApiKey
  ELSE IF code = "invalid_api_key" THEN QuotaExceeded
  ELSE ErrorGeneratingPrefix \o message

\* the catch block of generateOpenAISummary
errorSummary(code, message) ==
  IF code = "insufficient_quota" THEN QuotaExceeded
  ELSE IF code = "invalid_api_key" THEN InvalidApiKey
  ELSE ErrorGeneratingPrefix \o message

\* generateOpenAISummary after the completion call returned or threw
completionSummary(o) ==
  CASE o.kind = "content" ->
         (LET t == trim(o.content) IN IF t # <<>> THEN t ELSE UnableToGenerate)
    [] OTHER -> errorSummary(o.code, o.message)

\* Math.min / Math.max over the timestamps
minTs(ms) == CHOOSE t \in {ms[i].ts : i \in 1..Len(ms)} : \A i \in 1..Len(ms) : t <= ms[i].ts
maxTs(ms) == CHOOSE t \in {ms[i].ts : i \in 1..Len(ms)} : \A i \in 1..Len(ms) : t >= ms[i].ts
\* the calendar date of a timestamp in seconds (Date.toDateString)
dateOf(ts) == ts \div (24 * 60 * 60)

\* mutant: the first and the last message taken for the earliest and the latest
getTimeRangeFirstLast(ms) ==
  IF Len(ms) = 0 THEN [label |-> "No messages", from |-> 0, to |-> 0]
  ELSE LET earliest == dateOf(ms[1].ts)
           latest == dateOf(ms[Len(ms)].ts)
       IN IF earliest = latest
          THEN [label |-> "date", from |-> earliest, to |-> earliest]
          ELSE [label |-> "date - date", from |-> earliest, to |-> latest]

\* getTimeRange(messages)
getTimeRange(ms) ==
  IF Len(ms) = 0 THEN [label |-> "No messages", from |-> 0, to |-> 0]
  ELSE LET earliest == dateOf(minTs(ms))
           latest == dateOf(maxTs(ms))
       IN IF earliest = latest
          THEN [label |-> "date", from |-> earliest, to |-> earliest]
          ELSE [label |-> "date - date", from |-> earliest, to |-> latest]

\* mutant: the statistics taken over the window of the transcript
renderSummaryWindow(ms, ai) ==
  [kind |-> "rendered",
   messageCount |-> Len(slice(ms)),
   uniqueUsers |-> Cardinality({slice(ms)[i].user : i \in 1..Len(slice(ms))}),
   timeRange |-> getTimeRange(slice(ms)),
   aiSummary |-> ai]

\* the text generatePersonalSummary builds
renderSummary(ms, ai) ==
  [kind |-> "rendered",
   messageCount |-> Len(ms),
   uniqueUsers |-> Cardinality({ms[i].user : i \in 1..Len(ms)}),
   timeRange |-> getTimeRange(ms),
   aiSummary |-> ai]

\* mutant: every fixed summary is the one of summarizeAllMyDMs
plainSummaryDMs(text) ==
  [kind |-> "plain", text |-> "No DM messages found in the specified time period."]

\* a fixed string returned as the summary
plainSummary(text) == [kind |-> "plain", text |-> text]

\* allMessages.sort((a, b) => parseFloat(a.ts) - parseFloat(b.ts)): a stable sort
RECURSIVE insertByTs(_, _)
insertByTs(sorted, m) ==
  IF sorted = <<>> THEN <<m>>
  ELSE IF sorted[Len(sorted)].ts <= m.ts THEN Append(sorted, m)
  ELSE Append(insertByTs(SubSeq(sorted, 1, Len(sorted) - 1), m), sorted[Len(sorted)])

RECURSIVE sortByTs(_)
sortByTs(ms) ==
  IF ms = <<>> THEN <<>>
  ELSE insertByTs(sortByTs(SubSeq(ms, 1, Len(ms) - 1)), ms[Len(ms)])

\* allDMs[conversation.user] = messages
putDM(dms, user, ms) ==
  IF \E i \in 1..Len(dms) : dms[i][1] = user
  THEN [i \in 1..Len(dms) |-> IF dms[i][1] = user THEN <<user, ms>> ELSE dms[i]]
  ELSE Append(dms, <<user, ms>>)

\* Object.values(allDMs).forEach(messages => allMessages.push(...messages))
RECURSIVE combineDMs(_)
combineDMs(dms) == IF dms = <<>> THEN <<>> ELSE Head(dms)[2] \o combineDMs(Tail(dms))

\* the conversations the loop of getAllMyDMs fetches: conversation.id && conversation.user
RECURSIVE eligibleConvs(_)
eligibleConvs(cs) ==
  IF cs = <<>> THEN <<>>
  ELSE (IF Head(cs).id # "" /\ Head(cs).user # "" THEN <<Head(cs)>> ELSE <<>>)
       \o eligibleConvs(Tail(cs))

ConvListResults ==
  {[ok |-> FALSE, channels |-> <<>>]}
    \cup {[ok |-> TRUE, channels |-> cs] : cs \in SeqsUpTo(ConvSamples, MaxConvs)}

(***************************************************************************)
(* The handlers: src/src/index.ts (rev1: lines 1-106, rev2: lines 107-233, *)
(* rev3: lines 234-352) and src/unnamed/part_001 (rev4).                   *)
(***************************************************************************)
\* mutant: the detached handler does the work before it answers
AckFirstLate(v, r) ==
  \/ r = "summarize" /\ v \in {"rev1", "rev3"}
  \/ r = "my-summary" /\ v \in {"rev1", "rev3"}

\* the handler calls res.send before it starts the work
AckFirst(v, r) ==
  \/ r = "summarize" /\ v \in {"rev1", "rev2", "rev3"}
  \/ r = "my-summary" /\ v \in {"rev1", "rev3"}

\* the work runs in an async IIFE the handler does not await
Detached(v, r) == v = "rev2" /\ r = "summarize"

\* the body of the acknowledgment
AckBody(v, r) ==
  IF r = "my-summary" THEN "Generating your personal chat summary..."
  ELSE IF v = "rev2" THEN "Generating channel summary... You will see it here soon!"
  ELSE "Generating channel summary..."

\* the response after the work, of a handler that did not acknowledge first
SuccessBody(r) ==
  IF r = "my-summary" THEN "Personal chat summary generated and sent to your DMs!"
  ELSE "Channel summary generated and posted!"

\* res.json({message, summary}) of /summarize-my-chats
SuccessJson(sum) ==
  [message |-> "Summary generated and sent to your DMs!", summary |-> sum]

\* the catch block of the handler calls res.status(500).send
CatchResponds(v, r) ==
  \/ r = "summarize" /\ v \in {"rev1", "rev3", "rev4"}
  \/ r = "my-summary" /\ v \in {"rev2", "rev4"}
  \/ r = ChatsRoute

\* res.status(500).send(...); /summarize-my-chats answers with JSON
ErrorBody(v, r) ==
  IF r = ChatsRoute THEN [error |-> "Internal server error"]
  ELSE IF v \in {"rev1", "rev3"} THEN "Internal server error"
  ELSE IF r = "my-summary" THEN "Error generating summary. Please try again."
  ELSE "Error generating channel summary. Please try again."

CatchLog(r) ==
  IF r = ChatsRoute THEN "Error generating personal summary:"
  ELSE IF r = "my-summary" THEN "Error handling personal summary command:"
  ELSE "Error handling channel summary command:"

\* mutant: `if (responseUrl !== undefined)`
UsesCallbackDefined(v, r, rq) == v = "rev2" /\ r = "summarize" /\ rq.response_url # Undefined

\* the branch `if (responseUrl)` of the detached task; the other handlers never
\* read response_url
UsesCallback(v, r, rq) == Detached(v, r) /\ Truthy(rq.response_url)

\* mutant: the DM goes to the operator's own user id, not the requester's
deliveryTargetOperator(v, r, rq, me) ==
  IF r = "my-summary" THEN <<"dm", "U1">>
  ELSE IF r = ChatsRoute THEN <<"dm", me>>
  ELSE IF v = "rev2" /\ r = "summarize" /\ Truthy(rq.response_url)
       THEN <<"callback", rq.response_url>>
  ELSE <<"channel", rq.channel_id>>

\* where the result goes; sendSummaryToMyself opens the DM of this.myUserId (me)
deliveryTarget(v, r, rq, me) ==
  IF r \in {"my-summary", ChatsRoute} THEN <<"dm", me>>
  ELSE IF UsesCallback(v, r, rq) THEN <<"callback", rq.response_url>>
  ELSE <<"channel", rq.channel_id>>

\* `<@${userId}> requested a summary:\n\n${summary}` (one \n in rev1 and rev3);
\* the callback wraps it in {response_type: 'in_channel', text}
deliveryText(v, r, rq, sum) ==
  IF r # "summarize" THEN [response_type |-> "", mention |-> "", sep |-> "", summary |-> sum]
  ELSE [response_type |-> IF UsesCallback(v, r, rq) THEN "in_channel" ELSE "",
        mention |-> rq.user_id,
        sep |-> IF v \in {"rev1", "rev3"} THEN "\n" ELSE "\n\n",
        summary |-> sum]

\* res.status(status).send(body): the call throws once a response went out
resSend(status, body) ==
  responses' = Append(responses, [status |-> status, body |-> body, sent |-> responses = <<>>])

HeadersSent == responses # <<>>

\* mutant: a failed delivery is tried again
afterDeliveryRetry(v, r, failed) ==
  IF ~failed THEN (IF v \in {"rev1", "rev3"} \/ (v = "rev2" /\ r = "summarize") THEN "done" ELSE "respond")
  ELSE "deliver"

\* mutant: a failed delivery does not reach the catch block
afterDeliverySwallowed(v, r, failed) ==
  IF AckFirst(v, r) \/ (failed /\ Detached(v, r)) THEN "done" ELSE "respond"

\* where the command goes once the delivery call returned
afterDelivery(v, r, failed) ==
  IF ~failed THEN (IF AckFirst(v, r) THEN "done" ELSE "respond")
  ELSE IF Detached(v, r) THEN "done"
  ELSE "catch"

\* a rejection of the delivery call inside the detached task has no handler
escapes(v, r, failed) == failed /\ Detached(v, r)

\* the first step of the work
firstStep(r) ==
  IF r = "my-summary" THEN "convlist"
  ELSE IF r = ChatsRoute THEN "userid"
  ELSE "history"

(***************************************************************************)
(* Actions of a slash command.                                             *)
(***************************************************************************)
\* new PersonalSlackSummarizer(userId), held by the handler's `summarizer`
construct(userId) ==
  /\ summarizers' = newSummarizer(summarizers, userId)
  /\ self' = Len(summarizers')

\* res.status(200).send(...) before the work, then the constructor
acknowledge ==
  /\ pc = "recv"
  /\ AckFirst(variant, route)
  /\ resSend(200, AckBody(variant, route))
  /\ detached' = Detached(variant, route)
  /\ pc' = firstStep(route)
  /\ construct(req.user_id)
  /\ UNCHANGED <<variant, route, req, calls, logs, unhandled, convs, convIdx, allDMs,
                 conversationType, summary, deliveries>>
  /\ UNCHANGED sumVars
  /\ UNCHANGED normVars
  /\ UNCHANGED traceVars
  /\ UNCHANGED chatVars
  /\ UNCHANGED loopVars

\* the handlers that do all the work first: the constructor (/summarize-my-chats
\* builds its summarizers around getMyUserId)
workFirst ==
  /\ pc = "recv"
  /\ ~AckFirst(variant, route)
  /\ pc' = firstStep(route)
  /\ IF route = ChatsRoute THEN UNCHANGED heapVars ELSE construct(req.user_id)
  /\ UNCHANGED <<variant, route, req, detached, responses, calls, logs, unhandled, convs,
                 convIdx, allDMs, conversationType, summary, deliveries>>
  /\ UNCHANGED sumVars
  /\ UNCHANGED normVars
  /\ UNCHANGED traceVars
  /\ UNCHANGED chatVars
  /\ UNCHANGED loopVars

\* where a summarize method returns to: its direct caller, or the handler that
\* delivers the summary
afterSummarize(r) == IF r \in {"render", "methods"} THEN "returned" ELSE "deliver"

\* mutant: getChannelMessages without its catch block, the failure reaches the
\* handler
summarizeChannelRethrow ==
  /\ pc = "history"
  /\ \E r \in OneHistoryResults(req.channel_id) :
       LET got == getChannelMessages(r)
       IN /\ calls' = Append(calls, "conversations.history")
          /\ logs' = IF r.ok THEN logs ELSE logs \cup {"Error fetching messages:"}
          /\ messages' = got
          /\ IF ~r.ok
             THEN pc' = "catch" /\ UNCHANGED <<summary, conversationType>>
             ELSE IF Len(got) = 0
             THEN /\ summary' = plainSummary("No messages found in the specified time period.")
                  /\ pc' = afterSummarize(route)
                  /\ UNCHANGED conversationType
             ELSE /\ conversationType' = "channel discussion"
                  /\ pc' = "generate"
                  /\ UNCHANGED summary
  /\ UNCHANGED <<variant, route, req, detached, responses, unhandled, convs, convIdx,
                 allDMs, deliveries>>
  /\ UNCHANGED <<idx, formattedMessages, prompt, completion, aiSummary>>
  /\ UNCHANGED normVars
  /\ UNCHANGED traceVars
  /\ UNCHANGED chatVars
  /\ UNCHANGED heapVars
  /\ UNCHANGED loopVars

\* summarizeChannel up to the call of generatePersonalSummary
summarizeChannel ==
  /\ pc = "history"
  /\ \E r \in OneHistoryResults(req.channel_id) :
       LET got == getChannelMessages(r)
       IN /\ calls' = Append(calls, "conversations.history")
          /\ fetched' = IF Traced(variant) THEN keep(fetched, r) ELSE fetched
          /\ logs' = IF r.ok THEN logs ELSE logs \cup {"Error fetching messages:"}
          /\ messages' = got
          /\ IF Len(got) = 0
             THEN /\ summary' = plainSummary("No messages found in the specified time period.")
                  /\ pc' = afterSummarize(route)
                  /\ UNCHANGED conversationType
             ELSE /\ conversationType' = "channel discussion"
                  /\ pc' = "generate"
                  /\ UNCHANGED summary
  /\ UNCHANGED <<variant, route, req, detached, responses, unhandled, convs, convIdx,
                 allDMs, deliveries>>
  /\ UNCHANGED <<idx, formattedMessages, prompt, completion, aiSummary>>
  /\ UNCHANGED normVars
  /\ UNCHANGED lookups
  /\ UNCHANGED chatVars
  /\ UNCHANGED heapVars
  /\ UNCHANGED loopVars

\* summarizeAllMyDMs once getAllMyDMs returned dms
combineAll(dms) ==
  LET allMessages == combineDMs(dms)
  IN IF Len(allMessages) = 0
     THEN /\ summary' = plainSummary("No DM messages found in the specified time period.")
          /\ pc' = afterSummarize(route)
          /\ UNCHANGED <<messages, conversationType>>
     ELSE /\ messages' = sortByTs(allMessages)
          /\ conversationType' = "DM conversations"
          /\ pc' = "generate"
          /\ UNCHANGED summary

\* getAllMyDMs: conversations.list
conversationsList ==
  /\ pc = "convlist"
  /\ \E r \in ConvListResults :
       LET cs == IF r.ok THEN eligibleConvs(r.channels) ELSE <<>>
       IN /\ calls' = Append(calls, "conversations.list")
          /\ logs' = IF r.ok THEN logs ELSE logs \cup {"Error fetching all DMs:"}
          /\ convs' = cs
          /\ IF cs = <<>>
             THEN combineAll(<<>>) /\ UNCHANGED convIdx
             ELSE /\ convIdx' = 1
                  /\ pc' = "dmhistory"
                  /\ UNCHANGED <<messages, conversationType, summary>>
  /\ UNCHANGED <<variant, route, req, detached, responses, unhandled, allDMs, deliveries>>
  /\ UNCHANGED <<idx, formattedMessages, prompt, completion, aiSummary>>
  /\ UNCHANGED normVars
  /\ UNCHANGED traceVars
  /\ UNCHANGED chatVars
  /\ UNCHANGED heapVars
  /\ UNCHANGED loopVars

\* getAllMyDMs: one iteration of the loop, getChannelMessages(conversation.id)
getAllMyDMs ==
  /\ pc = "dmhistory"
  /\ \E r \in HistoryResults(MaxMsgs - Len(combineDMs(allDMs))) :
       LET got == getChannelMessages(r)
           dms == IF Len(got) > 0 THEN putDM(allDMs, convs[convIdx].user, got) ELSE allDMs
       IN /\ calls' = Append(calls, "conversations.history")
          /\ fetched' = IF Traced(variant) THEN keep(fetched, r) ELSE fetched
          /\ logs' = IF r.ok THEN logs ELSE logs \cup {"Error fetching messages:"}
          /\ allDMs' = dms
          /\ IF convIdx = Len(convs)
             THEN combineAll(dms) /\ UNCHANGED convIdx
             ELSE /\ convIdx' = convIdx + 1
                  /\ UNCHANGED <<pc, messages, conversationType, summary>>
  /\ UNCHANGED <<variant, route, req, detached, responses, unhandled, convs, deliveries>>
  /\ UNCHANGED <<idx, formattedMessages, prompt, completion, aiSummary>>
  /\ UNCHANGED normVars
  /\ UNCHANGED lookups
  /\ UNCHANGED chatVars
  /\ UNCHANGED heapVars
  /\ UNCHANGED loopVars

\* generateOpenAISummary returns ai to its caller
returnSummary(ai) ==
  /\ aiSummary' = ai
  /\ pc' = IF route = "direct" THEN "returned" ELSE "render"

\* mutant: without the first check an empty list reaches the check of the transcript
generateOpenAISummaryUnchecked ==
  /\ pc = "generate"
  /\ IF Len(messages) = 0
     THEN returnSummary(NoMeaningfulMessages) /\ UNCHANGED <<idx, formattedMessages>>
     ELSE /\ pc' = "format"
          /\ idx' = 1
          /\ formattedMessages' = <<>>
          /\ UNCHANGED aiSummary
  /\ UNCHANGED <<route, calls, messages, prompt, completion>>
  /\ UNCHANGED cmdVars
  /\ UNCHANGED normVars
  /\ UNCHANGED traceVars
  /\ UNCHANGED chatVars
  /\ UNCHANGED heapVars
  /\ UNCHANGED loopVars

\* generateOpenAISummary: the check of an empty message list
generateOpenAISummary ==
  /\ pc = "generate"
  /\ IF Len(messages) = 0
     THEN returnSummary(NoMessagesToSummarize) /\ UNCHANGED <<idx, formattedMessages>>
     ELSE /\ pc' = "format"
          /\ idx' = 1
          /\ formattedMessages' = <<>>
          /\ UNCHANGED aiSummary
  /\ UNCHANGED <<route, calls, messages, prompt, completion>>
  /\ UNCHANGED cmdVars
  /\ UNCHANGED normVars
  /\ UNCHANGED traceVars
  /\ UNCHANGED chatVars
  /\ UNCHANGED heapVars
  /\ UNCHANGED loopVars

\* formatMessagesForAI: one iteration of the loop, then the check of an empty
\* transcript
formatMessagesForAI ==
  /\ pc = "format"
  /\ \E o \in LookupOutcomes(Len(slice(messages)), idx) :
       \E msg \in {slice(messages)[idx]} :
          \E lines \in {pushLine(formattedMessages, msg, getUserInfo(msg.user, o))} :
             /\ calls' = Append(calls, "users.info")
             /\ lookups' = IF Traced(variant) THEN Append(lookups, o) ELSE lookups
             /\ formattedMessages' = lines
             /\ IF idx < Len(slice(messages))
                THEN idx' = idx + 1 /\ UNCHANGED <<pc, aiSummary>>
                ELSE /\ UNCHANGED idx
                     /\ IF Len(join(lines)) = 0
                        THEN returnSummary(NoMeaningfulMessages)
                        ELSE pc' = "complete" /\ UNCHANGED aiSummary
  /\ UNCHANGED <<route, messages, prompt, completion, fetched>>
  /\ UNCHANGED cmdVars
  /\ UNCHANGED normVars
  /\ UNCHANGED chatVars
  /\ UNCHANGED heapVars
  /\ UNCHANGED loopVars

\* mutant: a completion call that was rate limited is made again
completionsCreateRetry ==
  /\ pc = "complete"
  /\ \E o \in CompletionOutcomes :
       /\ calls' = Append(calls, "chat.completions.create")
       /\ prompt' = [type |-> conversationType, transcript |-> join(formattedMessages)]
       /\ completion' = o
       /\ IF o.code = "rate_limit_exceeded"
          THEN UNCHANGED <<pc, aiSummary>>
          ELSE returnSummary(completionSummary(o))
  /\ UNCHANGED <<route, messages, idx, formattedMessages>>
  /\ UNCHANGED cmdVars
  /\ UNCHANGED normVars
  /\ UNCHANGED traceVars
  /\ UNCHANGED chatVars
  /\ UNCHANGED heapVars
  /\ UNCHANGED loopVars

\* this.openai.chat.completions.create and the mapping of its outcome
completionsCreate ==
  /\ pc = "complete"
  /\ \E o \in CompletionOutcomes :
       /\ calls' = Append(calls, "chat.completions.create")
       /\ prompt' = [type |-> conversationType, transcript |-> join(formattedMessages)]
       /\ completion' = o
       /\ returnSummary(completionSummary(o))
  /\ UNCHANGED <<route, messages, idx, formattedMessages>>
  /\ UNCHANGED cmdVars
  /\ UNCHANGED normVars
  /\ UNCHANGED traceVars
  /\ UNCHANGED chatVars
  /\ UNCHANGED heapVars
  /\ UNCHANGED loopVars

\* generatePersonalSummary after generateOpenAISummary returned
generatePersonalSummary ==
  /\ pc = "render"
  /\ summary' = renderSummary(messages, aiSummary)
  /\ pc' = afterSummarize(route)
  /\ UNCHANGED <<variant, route, req, detached, responses, calls, logs, unhandled,
                 convs, convIdx, allDMs, conversationType, deliveries>>
  /\ UNCHANGED sumVars
  /\ UNCHANGED normVars
  /\ UNCHANGED traceVars
  /\ UNCHANGED chatVars
  /\ UNCHANGED heapVars
  /\ UNCHANGED loopVars

\* this.myUserId of the summarizer at position ref
thisMyUserId(heap, ref) == IF ref = 0 THEN Undefined ELSE heap[ref].myUserId

\* one delivery attempt, recorded
attempt(failed) ==
  deliveries' = Append(deliveries,
    [target |-> deliveryTarget(variant, route, req, thisMyUserId(summarizers, self)),
     text |-> deliveryText(variant, route, req, summary),
     failed |-> failed])

\* what follows the delivery call
delivered(failed) ==
  /\ pc' = afterDelivery(variant, route, failed)
  /\ unhandled' = (unhandled \/ escapes(variant, route, failed))

\* the detached task: fetch(responseUrl, {method: 'POST', ...})
callbackPost ==
  /\ pc = "deliver"
  /\ route = "summarize"
  /\ UsesCallback(variant, route, req)
  /\ \E o \in {"ok", "http_error", "reject"} :
       /\ calls' = Append(calls, "fetch")
       /\ attempt(o = "reject")
       /\ delivered(o = "reject")
  /\ UNCHANGED <<variant, route, req, detached, responses, logs, convs, convIdx, allDMs,
                 conversationType, summary>>
  /\ UNCHANGED sumVars
  /\ UNCHANGED normVars
  /\ UNCHANGED traceVars
  /\ UNCHANGED chatVars
  /\ UNCHANGED heapVars
  /\ UNCHANGED loopVars

\* postSummary: chat.postMessage, and the rethrow of its catch block
postSummary ==
  /\ pc = "deliver"
  /\ route = "summarize"
  /\ ~UsesCallback(variant, route, req)
  /\ \E o \in {"ok", "not_ok", "throw"} :
       /\ calls' = Append(calls, "chat.postMessage")
       /\ logs' = IF o = "ok" THEN logs ELSE logs \cup {"Error posting summary:"}
       /\ attempt(o # "ok")
       /\ delivered(o # "ok")
  /\ UNCHANGED <<variant, route, req, detached, responses, convs, convIdx, allDMs,
                 conversationType, summary>>
  /\ UNCHANGED sumVars
  /\ UNCHANGED normVars
  /\ UNCHANGED traceVars
  /\ UNCHANGED chatVars
  /\ UNCHANGED heapVars
  /\ UNCHANGED loopVars

\* sendSummaryToMyself: conversations.open
conversationsOpen ==
  /\ pc = "deliver"
  /\ route \in {"my-summary", ChatsRoute}
  /\ \E o \in {"ok", "no_channel", "throw"} :
       /\ calls' = Append(calls, "conversations.open")
       /\ IF o = "ok"
          THEN pc' = "postdm" /\ UNCHANGED <<logs, deliveries, unhandled>>
          ELSE /\ logs' = logs \cup {"Error sending summary to yourself:"}
               /\ attempt(TRUE)
               /\ delivered(TRUE)
  /\ UNCHANGED <<variant, route, req, detached, responses, convs, convIdx, allDMs,
                 conversationType, summary>>
  /\ UNCHANGED sumVars
  /\ UNCHANGED normVars
  /\ UNCHANGED traceVars
  /\ UNCHANGED chatVars
  /\ UNCHANGED heapVars
  /\ UNCHANGED loopVars

\* sendSummaryToMyself: chat.postMessage, and the rethrow of its catch block
sendSummaryToMyself ==
  /\ pc = "postdm"
  /\ \E o \in {"ok", "not_ok", "throw"} :
       /\ calls' = Append(calls, "chat.postMessage")
       /\ logs' = IF o = "ok" THEN logs ELSE logs \cup {"Error sending summary to yourself:"}
       /\ attempt(o # "ok")
       /\ delivered(o # "ok")
  /\ UNCHANGED <<variant, route, req, detached, responses, convs, convIdx, allDMs,
                 conversationType, summary>>
  /\ UNCHANGED sumVars
  /\ UNCHANGED normVars
  /\ UNCHANGED traceVars
  /\ UNCHANGED chatVars
  /\ UNCHANGED heapVars
  /\ UNCHANGED loopVars

\* the catch block of the handler
catchBlock ==
  /\ pc = "catch"
  /\ logs' = logs \cup {CatchLog(route)}
  /\ IF CatchResponds(variant, route)
     THEN /\ resSend(500, ErrorBody(variant, route))
          /\ unhandled' = (unhandled \/ HeadersSent)
     ELSE UNCHANGED <<responses, unhandled>>
  /\ pc' = "done"
  /\ UNCHANGED <<variant, route, req, detached, calls, convs, convIdx, allDMs,
                 conversationType, summary, deliveries>>
  /\ UNCHANGED sumVars
  /\ UNCHANGED normVars
  /\ UNCHANGED traceVars
  /\ UNCHANGED chatVars
  /\ UNCHANGED heapVars
  /\ UNCHANGED loopVars

\* res.status(200).send(...) after the work
respondSuccess ==
  /\ pc = "respond"
  /\ resSend(200, IF route = ChatsRoute THEN SuccessJson(summary) ELSE SuccessBody(route))
  /\ pc' = "done"
  /\ UNCHANGED <<variant, route, req, detached, calls, logs, unhandled, convs, convIdx,
                 allDMs, conversationType, summary, deliveries>>
  /\ UNCHANGED sumVars
  /\ UNCHANGED normVars
  /\ UNCHANGED traceVars
  /\ UNCHANGED chatVars
  /\ UNCHANGED heapVars
  /\ UNCHANGED loopVars

(***************************************************************************)
(* Actions of POST /summarize-my-chats (the same text in every revision).  *)
(***************************************************************************)
\* process.env.MY_USER_ID
EnvUserIds == {Undefined, "U1"}

\* `if (type === 'all')`
typeStep(type) == IF type = "all" THEN "convlist" ELSE "opendm"

\* tempSummarizer = new PersonalSlackSummarizer(process.env.MY_USER_ID || ''),
\* then summarizer = new PersonalSlackSummarizer(myUserId)
construct2(tempId, userId) ==
  /\ summarizers' = newSummarizer(newSummarizer(summarizers, tempId), userId)
  /\ self' = Len(summarizers')

\* process.env.MY_USER_ID || await tempSummarizer.getMyUserId()
getMyUserId ==
  /\ pc = "userid"
  /\ \E e \in EnvUserIds :
       IF Truthy(e)
       THEN /\ myUserId' = e
            /\ pc' = typeStep(req.type)
            /\ construct2(e, e)
            /\ UNCHANGED <<calls, logs>>
       ELSE \E o \in {"ok", "throw"} :
              /\ calls' = Append(calls, "auth.test")
              /\ IF o = "ok"
                 THEN /\ myUserId' = "U1"
                      /\ pc' = typeStep(req.type)
                      /\ construct2("", "U1")
                      /\ UNCHANGED logs
                 ELSE /\ logs' = logs \cup {"Error getting user ID:"}
                      /\ pc' = "catch"
                      /\ summarizers' = newSummarizer(summarizers, "")
                      /\ UNCHANGED <<myUserId, self>>
  /\ UNCHANGED <<variant, route, req, detached, responses, unhandled, convs, convIdx,
                 allDMs, conversationType, summary, deliveries>>
  /\ UNCHANGED sumVars
  /\ UNCHANGED normVars
  /\ UNCHANGED traceVars
  /\ UNCHANGED loopVars

\* summarizeSpecificDM once getDMMessages returned got
specificDM(got) ==
  /\ messages' = got
  /\ IF Len(got) = 0
     THEN /\ summary' = plainSummary("No messages found in the specified time period.")
          /\ pc' = afterSummarize(route)
     ELSE /\ pc' = "peername"
          /\ UNCHANGED summary

\* getDMMessages: conversations.open for the other user
conversationsOpenDM ==
  /\ pc = "opendm"
  /\ \E o \in {"ok", "no_channel", "throw"} :
       /\ calls' = Append(calls, "conversations.open")
       /\ IF o = "ok"
          THEN pc' = "dmfetch" /\ UNCHANGED <<logs, messages, summary>>
          ELSE /\ logs' = logs \cup {"Error fetching DM messages:"}
               /\ specificDM(getDMMessages(o, [ok |-> FALSE, messages |-> <<>>]))
  /\ UNCHANGED <<variant, route, req, detached, responses, unhandled, convs, convIdx,
                 allDMs, conversationType, deliveries>>
  /\ UNCHANGED <<idx, formattedMessages, prompt, completion, aiSummary>>
  /\ UNCHANGED normVars
  /\ UNCHANGED traceVars
  /\ UNCHANGED chatVars
  /\ UNCHANGED heapVars
  /\ UNCHANGED loopVars

\* getDMMessages: conversations.history, the filter, and the catch block
conversationsHistoryDM ==
  /\ pc = "dmfetch"
  /\ \E r \in OneHistoryResults(req.type) :
       /\ calls' = Append(calls, "conversations.history")
       /\ fetched' = IF Traced(variant) THEN keep(fetched, r) ELSE fetched
       /\ logs' = IF r.ok THEN logs ELSE logs \cup {"Error fetching DM messages:"}
       /\ specificDM(getDMMessages("ok", r))
  /\ UNCHANGED <<variant, route, req, detached, responses, unhandled, convs, convIdx,
                 allDMs, conversationType, deliveries>>
  /\ UNCHANGED <<idx, formattedMessages, prompt, completion, aiSummary>>
  /\ UNCHANGED normVars
  /\ UNCHANGED lookups
  /\ UNCHANGED chatVars
  /\ UNCHANGED heapVars
  /\ UNCHANGED loopVars

\* `DM conversation with ${otherUserName}`; the users other than U1 share their
\* names
dmLabel(otherUserName) ==
  IF otherUserName = RealName("U2") THEN "DM conversation with Bob"
  ELSE IF otherUserName = HandleName("U2") THEN "DM conversation with bob"
  ELSE "DM conversation with Unknown User"

\* summarizeSpecificDM: getUserInfo(otherUserId) and the label of the summary
summarizeSpecificDM ==
  /\ pc = "peername"
  /\ \E o \in UserInfoOutcomes :
       /\ calls' = Append(calls, "users.info")
       /\ conversationType' = dmLabel(getUserInfo(req.type, o))
  /\ pc' = "generate"
  /\ UNCHANGED <<variant, route, req, detached, responses, logs, unhandled, convs,
                 convIdx, allDMs, summary, deliveries>>
  /\ UNCHANGED sumVars
  /\ UNCHANGED normVars
  /\ UNCHANGED traceVars
  /\ UNCHANGED chatVars
  /\ UNCHANGED heapVars
  /\ UNCHANGED loopVars

(***************************************************************************)
(* Actions of the normalizer, one per statement of preprocessText.         *)
(***************************************************************************)
normStep(n, t) ==
  /\ pc = "normalize"
  /\ nstage = n
  /\ ntext' = t
  /\ nstage' = n + 1
  /\ UNCHANGED <<variant, route, req, pc, detached, responses, calls, logs, unhandled,
                 convs, convIdx, allDMs, conversationType, summary, deliveries>>
  /\ UNCHANGED sumVars
  /\ UNCHANGED <<raw, nout>>
  /\ UNCHANGED traceVars
  /\ UNCHANGED chatVars
  /\ UNCHANGED heapVars
  /\ UNCHANGED loopVars

stepUrls == normStep(0, replaceUrls(ntext))
stepMentions == normStep(1, replaceMentions(ntext))
stepChannels == normStep(2, replaceChannels(ntext))
stepEmojis == normStep(3, removeEmojis(ntext))
stepSpaces == normStep(4, cleanSpaces(ntext))

\* .filter(text => text.length > 5)
stepFilter ==
  /\ pc = "normalize"
  /\ nstage = 5
  /\ nout' = filterLong(<<ntext>>)
  /\ nstage' = 6
  /\ UNCHANGED <<variant, route, req, pc, detached, responses, calls, logs, unhandled,
                 convs, convIdx, allDMs, conversationType, summary, deliveries>>
  /\ UNCHANGED sumVars
  /\ UNCHANGED <<raw, ntext>>
  /\ UNCHANGED traceVars
  /\ UNCHANGED chatVars
  /\ UNCHANGED heapVars
  /\ UNCHANGED loopVars

\* the body of the loop of formatMessagesForAI on the one message
stepLine ==
  /\ pc = "normalize"
  /\ nstage = 6
  /\ formattedMessages' = pushLine(<<>>, messages[1], UnknownUser)
  /\ nstage' = 7
  /\ pc' = "returned"
  /\ UNCHANGED <<variant, route, req, detached, responses, calls, logs, unhandled,
                 convs, convIdx, allDMs, conversationType, summary, deliveries>>
  /\ UNCHANGED <<messages, idx, prompt, completion, aiSummary>>
  /\ UNCHANGED <<raw, ntext, nout>>
  /\ UNCHANGED traceVars
  /\ UNCHANGED chatVars
  /\ UNCHANGED heapVars
  /\ UNCHANGED loopVars

(***************************************************************************)
(* Two commands at once: the event loop runs one command up to its next    *)
(* await and then whichever command's call has answered.                   *)
(***************************************************************************)
NoRequest == [channel_id |-> "", user_id |-> "", response_url |-> Undefined]

\* no second command
NoCommand ==
  [route |-> "", req |-> NoRequest, pc |-> "none", detached |-> FALSE,
   responses |-> <<>>, calls |-> <<>>, unhandled |-> FALSE, messages |-> <<>>,
   convs |-> <<>>, convIdx |-> 0, allDMs |-> <<>>, conversationType |-> "",
   idx |-> 0, formattedMessages |-> <<>>, prompt |-> NoPrompt,
   completion |-> NoCompletion, aiSummary |-> NoText, summary |-> NoSummary,
   deliveries |-> <<>>, self |-> 0]

\* what belongs to the running command: the handler's req and res, its locals
\* and the locals of the methods it is in; the revision, the console and the
\* objects on the heap belong to the process
Command ==
  [route |-> route, req |-> req, pc |-> pc, detached |-> detached,
   responses |-> responses, calls |-> calls, unhandled |-> unhandled,
   messages |-> messages, convs |-> convs, convIdx |-> convIdx, allDMs |-> allDMs,
   conversationType |-> conversationType, idx |-> idx,
   formattedMessages |-> formattedMessages, prompt |-> prompt,
   completion |-> completion, aiSummary |-> aiSummary, summary |-> summary,
   deliveries |-> deliveries, self |-> self]

\* the places where a command waits: before its handler is called, at an await
\* of an external call, and after its last statement
Suspended(at) ==
  at \in {"recv", "history", "convlist", "dmhistory", "format", "complete",
          "deliver", "postdm", "done"}

\* the running command waits and the other command runs
switch ==
  /\ other # NoCommand
  /\ Suspended(pc)
  /\ Suspended(other.pc)
  /\ other' = Command
  /\ route' = other.route
  /\ req' = other.req
  /\ pc' = other.pc
  /\ detached' = other.detached
  /\ responses' = other.responses
  /\ calls' = other.calls
  /\ unhandled' = other.unhandled
  /\ messages' = other.messages
  /\ convs' = other.convs
  /\ convIdx' = other.convIdx
  /\ allDMs' = other.allDMs
  /\ conversationType' = other.conversationType
  /\ idx' = other.idx
  /\ formattedMessages' = other.formattedMessages
  /\ prompt' = other.prompt
  /\ completion' = other.completion
  /\ aiSummary' = other.aiSummary
  /\ summary' = other.summary
  /\ deliveries' = other.deliveries
  /\ self' = other.self
  /\ UNCHANGED <<variant, logs, summarizers>>
  /\ UNCHANGED normVars
  /\ UNCHANGED traceVars
  /\ UNCHANGED chatVars

(***************************************************************************)
(* Specifications.                                                         *)
(***************************************************************************)
\* req.body; only /slack/summarize reads response_url
Requests(r) ==
  [channel_id : {"C1"}, user_id : {"U1", "U2"},
   response_url : IF r = "summarize" THEN {Undefined, "", CallbackUrl} ELSE {Undefined}]

InitIdle ==
  /\ detached = FALSE
  /\ responses = <<>>
  /\ calls = <<>>
  /\ logs = {}
  /\ unhandled = FALSE
  /\ convs = <<>>
  /\ convIdx = 0
  /\ allDMs = <<>>
  /\ idx = 0
  /\ formattedMessages = <<>>
  /\ prompt = NoPrompt
  /\ completion = NoCompletion
  /\ aiSummary = NoText
  /\ lookups = <<>>
  /\ fetched = EmptyBag
  /\ myUserId = ""
  /\ summarizers = <<>>
  /\ self = 0
  /\ summary = NoSummary
  /\ deliveries = <<>>

\* a slash command arrives
Init ==
  /\ variant \in Revisions
  /\ route \in Routes
  /\ req \in Requests(route)
  /\ pc = "recv"
  /\ messages = <<>>
  /\ conversationType = "conversations"
  /\ InitIdle
  /\ other = NoCommand
  /\ raw = <<>> /\ ntext = <<>> /\ nstage = 0 /\ nout = <<>>

Next ==
  \/ acknowledge
  \/ workFirst
  \/ summarizeChannel
  \/ conversationsList
  \/ getAllMyDMs
  \/ generateOpenAISummary
  \/ formatMessagesForAI
  \/ completionsCreate
  \/ generatePersonalSummary
  \/ callbackPost
  \/ postSummary
  \/ conversationsOpen
  \/ sendSummaryToMyself
  \/ catchBlock
  \/ respondSuccess

Spec == Init /\ [][Next]_vars

\* the same commands, where every external call returns or fails in the end and
\* the event loop then runs what waits for it
SpecLive == Init /\ [][Next]_vars /\ WF_vars(Next)

\* req.body of /summarize-my-chats: type is 'all' or the other user's id
ChatRequests ==
  [channel_id : {Undefined}, user_id : {Undefined}, response_url : {Undefined},
   type : {"all", "U2", "U3"}]

\* POST /summarize-my-chats arrives
InitChats ==
  /\ variant \in Revisions
  /\ route = ChatsRoute
  /\ req \in ChatRequests
  /\ pc = "recv"
  /\ messages = <<>>
  /\ conversationType = "conversations"
  /\ InitIdle
  /\ other = NoCommand
  /\ raw = <<>> /\ ntext = <<>> /\ nstage = 0 /\ nout = <<>>

NextChats ==
  \/ workFirst
  \/ getMyUserId
  \/ conversationsOpenDM
  \/ conversationsHistoryDM
  \/ summarizeSpecificDM
  \/ conversationsList
  \/ getAllMyDMs
  \/ generateOpenAISummary
  \/ formatMessagesForAI
  \/ completionsCreate
  \/ generatePersonalSummary
  \/ conversationsOpen
  \/ sendSummaryToMyself
  \/ catchBlock
  \/ respondSuccess

SpecChats == InitChats /\ [][NextChats]_vars

\* the commands that summarize one conversation: /slack/summarize, and
\* /summarize-my-chats with the id of the other user
InitFetch ==
  /\ \/ /\ route = "summarize"
        /\ req \in {[q EXCEPT !.channel_id = c] : q \in Requests(route), c \in {"C1", "C2"}}
     \/ /\ route = ChatsRoute
        /\ req \in {q \in ChatRequests : q.type # "all"}
  /\ variant \in Revisions
  /\ pc = "recv"
  /\ messages = <<>>
  /\ conversationType = "conversations"
  /\ InitIdle
  /\ other = NoCommand
  /\ raw = <<>> /\ ntext = <<>> /\ nstage = 0 /\ nout = <<>>

NextFetch ==
  \/ acknowledge
  \/ workFirst
  \/ summarizeChannel
  \/ getMyUserId
  \/ conversationsOpenDM
  \/ conversationsHistoryDM
  \/ summarizeSpecificDM
  \/ generateOpenAISummary
  \/ formatMessagesForAI
  \/ completionsCreate
  \/ generatePersonalSummary
  \/ callbackPost
  \/ postSummary
  \/ conversationsOpen
  \/ sendSummaryToMyself
  \/ catchBlock
  \/ respondSuccess

SpecFetch == InitFetch /\ [][NextFetch]_vars

\* every command of the three routes: /slack/summarize and /slack/my-summary in
\* each revision, and /summarize-my-chats, whose handler has the same text in
\* every revision, in the first
InitCommands == Init \/ (InitChats /\ variant = "rev1")

NextCommands ==
  \/ acknowledge
  \/ workFirst
  \/ summarizeChannel
  \/ getMyUserId
  \/ conversationsOpenDM
  \/ conversationsHistoryDM
  \/ summarizeSpecificDM
  \/ conversationsList
  \/ getAllMyDMs
  \/ generateOpenAISummary
  \/ formatMessagesForAI
  \/ completionsCreate
  \/ generatePersonalSummary
  \/ callbackPost
  \/ postSummary
  \/ conversationsOpen
  \/ sendSummaryToMyself
  \/ catchBlock
  \/ respondSuccess

SpecCommands == InitCommands /\ [][NextCommands]_vars

\* the arguments of a direct call of summarizeChannel(channelId),
\* summarizeSpecificDM(otherUserId) or summarizeAllMyDMs()
MethodCalls ==
  {<<"history", [NoRequest EXCEPT !.channel_id = c]>> : c \in {"C1", "C3"}}
    \cup {<<"opendm", [type |-> u] @@ NoRequest>> : u \in {"U2", "U4"}}
    \cup {<<"convlist", NoRequest>>}

\* one of the three summarize methods is called
InitMethods ==
  /\ variant = "none"
  /\ route = "methods"
  /\ \E c \in MethodCalls : pc = c[1] /\ req = c[2]
  /\ messages = <<>>
  /\ conversationType = "conversations"
  /\ InitIdle
  /\ other = NoCommand
  /\ raw = <<>> /\ ntext = <<>> /\ nstage = 0 /\ nout = <<>>

NextMethods ==
  \/ summarizeChannel
  \/ conversationsOpenDM
  \/ conversationsHistoryDM
  \/ summarizeSpecificDM
  \/ conversationsList
  \/ getAllMyDMs
  \/ generateOpenAISummary
  \/ formatMessagesForAI
  \/ completionsCreate
  \/ generatePersonalSummary

SpecMethods == InitMethods /\ [][NextMethods]_vars

\* two slash commands from two users: the first asks for a channel summary
\* with a callback or for a personal summary, the second for the summary of
\* another channel or for a personal summary
FirstCommands ==
  {<<"summarize", [channel_id |-> "C1", user_id |-> "U1", response_url |-> CallbackUrl]>>,
   <<"my-summary", [channel_id |-> "C1", user_id |-> "U1", response_url |-> Undefined]>>}
SecondCommands ==
  {<<"summarize", [channel_id |-> "C4", user_id |-> "U2", response_url |-> Undefined]>>,
   <<"my-summary", [channel_id |-> "C4", user_id |-> "U2", response_url |-> Undefined]>>}

\* both commands have arrived and neither handler has been called
InitPair ==
  /\ variant \in Revisions
  /\ \E c \in FirstCommands : route = c[1] /\ req = c[2]
  /\ \E c \in SecondCommands :
       other = [NoCommand EXCEPT !.route = c[1], !.req = c[2], !.pc = "recv",
                                 !.conversationType = "conversations"]
  /\ pc = "recv"
  /\ messages = <<>>
  /\ conversationType = "conversations"
  /\ InitIdle
  /\ raw = <<>> /\ ntext = <<>> /\ nstage = 0 /\ nout = <<>>

\* what the external services answer to the two commands: every call succeeds
\* or fails, a conversation list holds at most one conversation, a history the
\* message of one user or of the other, users.info the real name, and a
\* completion is a text or a rate limit error
PairAnswers ==
  /\ Len(convs) <= 1
  /\ messages \in {<<>>, <<MsgCheckUrl>>, <<MsgThanks>>}
  /\ \A i \in 1..Len(formattedMessages) :
       \E u \in {"U1", "U2"} :
         SubSeq(formattedMessages[i], 1, Len(RealName(u)) + 1) = RealName(u) \o <<":">>
  /\ completion \in
       {NoCompletion,
        [kind |-> "content", content |-> ContentPadded, code |-> "", message |-> <<>>],
        [kind |-> "error", content |-> <<>>, code |-> "rate_limit_exceeded",
         message |-> MsgRateLimit]}

NextPair ==
  \/ switch
  \/ acknowledge
  \/ workFirst
  \/ summarizeChannel /\ PairAnswers'
  \/ conversationsList /\ PairAnswers'
  \/ getAllMyDMs /\ PairAnswers'
  \/ generateOpenAISummary
  \/ formatMessagesForAI /\ PairAnswers'
  \/ completionsCreate /\ PairAnswers'
  \/ generatePersonalSummary
  \/ callbackPost
  \/ postSummary
  \/ conversationsOpen
  \/ sendSummaryToMyself
  \/ catchBlock
  \/ respondSuccess

SpecPair == InitPair /\ [][NextPair]_vars

\* the lists generateOpenAISummary is called with: short ones, and ones that end
\* in a run of too-short messages as long as the window, or one shorter
Padding(n) == [i \in 1..n |-> MsgOk]
SumInputs ==
  {h \o Padding(n) : h \in SeqsUpTo(Samples, MaxMsgs),
                     n \in {0, WindowSize - 1, WindowSize}}

\* generateOpenAISummary(messages) is called
InitSum ==
  /\ variant = "none"
  /\ route = "direct"
  /\ req = NoRequest
  /\ pc = "generate"
  /\ messages \in SumInputs
  /\ conversationType = "conversation"
  /\ InitIdle
  /\ other = NoCommand
  /\ raw = <<>> /\ ntext = <<>> /\ nstage = 0 /\ nout = <<>>

NextSum ==
  \/ generateOpenAISummary
  \/ formatMessagesForAI
  \/ completionsCreate

SpecSum == InitSum /\ [][NextSum]_vars

\* the lists generatePersonalSummary is called with: short ones in every order,
\* and ones longer than the window
Fill(m, n) == [i \in 1..n |-> m]
RenderInputs ==
  SeqsUpTo(Samples, MaxList)
    \cup {h \o Fill(m, n) : h \in SeqsUpTo(Samples, 1), m \in {MsgOk, MsgCheckUrl},
                             n \in {WindowSize - 1, WindowSize}}

\* generatePersonalSummary(messages, 'conversation') is called
InitRender ==
  /\ variant = "none"
  /\ route = "render"
  /\ req = NoRequest
  /\ pc = "generate"
  /\ messages \in RenderInputs
  /\ conversationType = "conversation"
  /\ InitIdle
  /\ other = NoCommand
  /\ raw = <<>> /\ ntext = <<>> /\ nstage = 0 /\ nout = <<>>

NextRender ==
  \/ generateOpenAISummary
  \/ formatMessagesForAI
  \/ completionsCreate
  \/ generatePersonalSummary

SpecRender == InitRender /\ [][NextRender]_vars

\* preprocessText([msg]) is called on a message with the raw text
InitNorm ==
  /\ variant = "none"
  /\ route = "normalize"
  /\ req = NoRequest
  /\ pc = "normalize"
  /\ raw \in RawTexts
  /\ messages = <<[text |-> raw, user |-> "U1", ts |-> 1000, bot_id |-> NoBot]>>
  /\ conversationType = "conversation"
  /\ InitIdle
  /\ other = NoCommand
  /\ ntext = raw /\ nstage = 0 /\ nout = <<>>

NextNorm ==
  \/ stepUrls
  \/ stepMentions
  \/ stepChannels
  \/ stepEmojis
  \/ stepSpaces
  \/ stepFilter
  \/ stepLine

SpecNorm == InitNorm /\ [][NextNorm]_vars

(***************************************************************************)
(* Claims.                                                                 *)
(***************************************************************************)
Count(seq, x) == Cardinality({i \in DOMAIN seq : seq[i] = x})
Last(seq) == seq[Len(seq)]
InIndexTs == variant \in {"rev1", "rev2", "rev3"}
Placeholder(r) == [status |-> 200, body |-> r, sent |-> TRUE]

C2_ExactlyOneResponse ==
  /\ Len(responses) <= 1
  /\ pc = "done" => Len(responses) = 1

C4_TargetByResponseUrl ==
  (variant = "rev2" /\ route = "summarize") =>
    IF req.response_url \notin {Undefined, ""}
    THEN /\ Count(calls, "chat.postMessage") = 0
         /\ Count(calls, "fetch") <= 1
         /\ pc = "done" =>
              /\ Count(calls, "fetch") = 1
              /\ Len(deliveries) = 1
              /\ deliveries[1].target = <<"callback", req.response_url>>
              /\ deliveries[1].text.response_type = "in_channel"
              /\ deliveries[1].text.mention = req.user_id
              /\ deliveries[1].text.summary = summary
    ELSE /\ Count(calls, "fetch") = 0
         /\ Count(calls, "chat.postMessage") <= 1
         /\ pc = "done" =>
              /\ Count(calls, "chat.postMessage") = 1
              /\ Len(deliveries) = 1
              /\ deliveries[1].target = <<"channel", req.channel_id>>
              /\ deliveries[1].text.summary = summary

C4_Witness ==
  /\ variant = "rev2"
  /\ route = "summarize"
  /\ req.response_url = CallbackUrl
  /\ pc = "done"
  /\ Count(calls, "fetch") = 1
  /\ summary.kind = "rendered"

\* C5 (as claimed): a failure inside the detached task of /slack/summarize is
\* caught at the top of the task and logged; it is never an unhandled rejection.
C5_TaskFailureCaught ==
  (variant = "rev2" /\ route = "summarize") =>
    /\ ~unhandled
    /\ (pc = "done" /\ deliveries # <<>> /\ deliveries[1].failed) =>
         "Error handling channel summary command:" \in logs

\* the commands whose work runs after the acknowledgment
Deferred ==
  \/ variant \in {"rev1", "rev3"}
  \/ variant = "rev2" /\ route = "summarize"

C7_EmptyList ==
  Len(messages) = 0 =>
    /\ calls = <<>>
    /\ pc \in {"generate", "returned"}
    /\ pc = "returned" => aiSummary = NoMessagesToSummarize

C7_Witness ==
  /\ messages = <<>>
  /\ pc = "returned"
  /\ aiSummary # NoText

\* the indices of the last 50 messages
Window50(ms) == {i \in 1..Len(ms) : i > Len(ms) - 50}
AllAbsent(ms) == \A i \in Window50(ms) : Len(cleanText(ms[i].text)) <= 5

\* C8: generateOpenAISummary on a non-empty list whose last 50 messages all
\* normalize to absent returns "No meaningful messages found to summarize." and
\* never calls the completion service.
C8_NothingMeaningful ==
  (Len(messages) > 0 /\ AllAbsent(messages)) =>
    /\ Count(calls, "chat.completions.create") = 0
    /\ pc \in {"generate", "format", "returned"}
    /\ pc = "returned" => aiSummary = NoMeaningfulMessages

C8_Witness ==
  /\ pc = "returned"
  /\ Len(messages) = 51
  /\ messages[1] = MsgCheckUrl
  /\ aiSummary = NoMeaningfulMessages
  /\ Count(calls, "users.info") = 50

\* C9: when the completion call fails, generateOpenAISummary returns the fixed
\* quota message for insufficient_quota, the fixed credentials message for
\* invalid_api_key and "Error generating AI summary: <detail>" otherwise; the
\* pipeline goes on, the string is part of the rendered summary and that is what
\* is delivered. The call is made once.
C9_CompletionFailure ==
  completion.kind = "error" =>
    /\ aiSummary = (CASE completion.code = "insufficient_quota" -> QuotaExceeded
                      [] completion.code = "invalid_api_key" -> InvalidApiKey
                      [] OTHER -> ErrorGeneratingPrefix \o completion.message)
    /\ Count(calls, "chat.completions.create") = 1
    /\ pc \in {"render", "deliver", "postdm", "catch", "respond", "done"}
    /\ pc # "render" => (summary.kind = "rendered" /\ summary.aiSummary = aiSummary)
    /\ \A i \in DOMAIN deliveries : deliveries[i].text.summary = summary
    /\ pc = "done" => Len(deliveries) = 1

C9_Witness ==
  /\ completion.code = "insufficient_quota"
  /\ pc = "done"
  /\ Len(deliveries) = 1
  /\ ~deliveries[1].failed
  /\ deliveries[1].text.summary.aiSummary = QuotaExceeded

\* C10: a raw text yields no transcript line if and only if its cleaned string
\* has length <= 5; a cleaned string of length 6 or more yields the line.
C10_AbsentIffShort ==
  nstage = 7 =>
    /\ (nout = <<>>) <=> (Len(ntext) <= 5)
    /\ (formattedMessages = <<>>) <=> (Len(ntext) <= 5)
    /\ Len(ntext) >= 6 =>
         /\ nout = <<ntext>>
         /\ formattedMessages = <<UnknownUser \o <<":", " ">> \o ntext>>

C10_Witness ==
  /\ nstage = 7
  /\ Len(ntext) = 6
  /\ Len(raw) > 6
  /\ formattedMessages # <<>>

\* the other side of the boundary: a cleaned string of exactly 5 characters
C10_WitnessFive ==
  /\ nstage = 7
  /\ Len(ntext) = 5
  /\ Len(raw) > 5
  /\ formattedMessages = <<>>

(***************************************************************************)
(* C11-C12: the normalizer on URLs, and on its own output.                 *)
(***************************************************************************)
\* t has sub as a substring
Contains(t, sub) == \E i \in 1..Len(t) : MatchAt(t, i, sub)

\* the URL pattern matches somewhere in t
HasUrl(t) == \E i \in 1..Len(t) : UrlMatchEnd(t, i) > 0

\* the matches of the URL pattern in t, scanning from i as replace() does
RECURSIVE UrlsFrom(_, _)
UrlsFrom(t, i) ==
  IF i > Len(t) THEN {}
  ELSE LET e == UrlMatchEnd(t, i)
       IN IF e > 0 THEN {SubSeq(t, i, e - 1)} \cup UrlsFrom(t, e)
          ELSE UrlsFrom(t, i + 1)

\* C11 as stated: whenever the raw text contains an http:// or https:// URL,
\* the normalizer's output exists, contains [URL] and does not contain the
\* original URL, a message that is only a URL included.
C11_UrlReplacedInOutput ==
  (nstage >= 6 /\ HasUrl(raw)) =>
     /\ nout # <<>>
     /\ Contains(nout[1], UrlPlaceholder)
     /\ \A u \in UrlsFrom(raw, 1) : ~Contains(nout[1], u)

\* C11: whenever the raw text contains a match of the URL pattern, the text
\* after the URL step contains [URL] and no match of the pattern, every later
\* step keeps a [URL], and the output is absent exactly when the cleaned text
\* has five characters or fewer (a message that is only a URL cleans to [URL]
\* and is absent); otherwise the output is the cleaned text with its [URL].
C11_UrlReplaced ==
  HasUrl(raw) =>
     /\ nstage >= 1 => Contains(ntext, UrlPlaceholder)
     /\ nstage = 1 => ~HasUrl(ntext)
     /\ nstage >= 6 => /\ (nout = <<>>) = (Len(ntext) <= MinLength)
                       /\ nout # <<>> => /\ nout = <<ntext>>
                                         /\ Contains(nout[1], UrlPlaceholder)

\* a message that is only a URL has been normalized: [URL], five characters, absent
C11_Witness ==
  /\ nstage = 7
  /\ raw = TokHttps
  /\ ntext = UrlPlaceholder
  /\ nout = <<>>

\* a URL between other text has been normalized and is in the output as [URL]
C11_WitnessKept ==
  /\ nstage = 7
  /\ raw = TokHi \o TokSpace \o TokHttp
  /\ nout = <<TokHi \o TokSpace \o UrlPlaceholder>>

\* the emoji step joins the halves of a URL again, next to a replaced one
C11_WitnessRejoined ==
  /\ nstage = 7
  /\ raw = TokSplitUrl \o TokSpace \o TokHttp
  /\ nout = <<TokHttp \o TokSpace \o UrlPlaceholder>>

\* none of the four patterns of the normalizer matches anywhere in t
NoMatches(t) ==
  \A i \in 1..Len(t) :
     /\ UrlMatchEnd(t, i) = 0
     /\ MentionMatchEnd(t, i) = 0
     /\ ChannelMatch(t, i)[1] = 0
     /\ EmojiMatchEnd(t, i) = 0

\* C12 as stated: for every raw text whose normalization is not absent, the
\* five steps applied to the output give the output back.
C12_Idempotent ==
  (nstage >= 6 /\ nout # <<>>) => cleanText(nout[1]) = nout[1]

\* C12: for every raw text whose normalization is not absent and holds no match
\* of the URL, mention, channel or emoji pattern, the five steps applied to the
\* output give the output back (so does normalize as a whole); a step can leave
\* a new match behind, and a second pass rewrites that one.
C12_IdempotentWithoutMatches ==
  (nstage >= 6 /\ nout # <<>> /\ NoMatches(nout[1])) =>
     /\ cleanText(nout[1]) = nout[1]
     /\ preprocessText(<<[text |-> nout[1]]>>) = nout

\* a raw text with a run of whitespace was normalized; its output has no match
C12_Witness ==
  /\ nstage = 7
  /\ raw = TokAbc \o TokWide \o TokAbc
  /\ nout = <<TokAbc \o TokSpace \o TokAbc>>
  /\ NoMatches(nout[1])

\* the emoji step left a URL behind, which a second pass replaces
C12_WitnessNewMatch ==
  /\ nstage = 7
  /\ raw = TokSplitUrl
  /\ nout = <<TokHttp>>
  /\ cleanText(nout[1]) = UrlPlaceholder

(***************************************************************************)
(* C13-C14: the transcript.                                                *)
(***************************************************************************)
\* the loop of formatMessagesForAI is over
FormatDone == pc \in {"complete", "render", "returned"}

\* the number of messages in front of the last WindowSize ones
Before(ms) == IF Len(ms) > WindowSize THEN Len(ms) - WindowSize ELSE 0

\* line ends with text
EndsWith(line, text) ==
  /\ Len(line) >= Len(text)
  /\ SubSeq(line, Len(line) - Len(text) + 1, Len(line)) = text

\* the message of the whole list that iteration idx of the loop is about, if the
\* loop runs over the last WindowSize messages
Current == messages[Before(messages) + idx]

\* C13: formatMessagesForAI looks at the last 50 messages only: each iteration
\* of its loop takes the next message of that tail and adds that message's line
\* behind the lines so far, or nothing if its text is absent; when the loop is
\* over it has made one lookup per message of the tail, at most 50, and there
\* are at most 50 lines. No message in front of the tail has a line.
C13_LastFifty ==
  /\ [](FormatDone /\ messages # <<>> =>
          /\ idx = Len(messages) - Before(messages)
          /\ idx <= WindowSize
          /\ Count(calls, "users.info") = idx
          /\ Len(formattedMessages) <= idx)
  /\ [][pc = "format" =>
          LET t == cleanText(Current.text)
              n == Len(formattedMessages)
          IN IF Len(t) > MinLength
             THEN /\ Len(formattedMessages') = n + 1
                  /\ SubSeq(formattedMessages', 1, n) = formattedMessages
                  /\ EndsWith(formattedMessages'[n + 1], <<":", " ">> \o t)
             ELSE formattedMessages' = formattedMessages]_vars

\* 51 messages, all with a line of their own: the first is not in the transcript
C13_Witness ==
  /\ FormatDone
  /\ messages = <<MsgThanks>> \o Fill(MsgCheckUrl, WindowSize)
  /\ Len(formattedMessages) = WindowSize
  /\ \A k \in 1..WindowSize : ~Contains(formattedMessages[k], UserPlaceholder)

\* the name getUserInfo gives user u when users.info does o
NameAfter(u, o) ==
  IF o \in {"throw", "none"} THEN UnknownUser
  ELSE IF o = "name" THEN HandleName(u) ELSE RealName(u)

Rendered == route = "render" /\ pc = "returned"

\* the calendar dates of the messages
Dates(ms) == {dateOf(ms[i].ts) : i \in 1..Len(ms)}

\* C17: the time range of the summary is "No messages" for an empty list, the
\* one date when every message falls on the same calendar date, and otherwise
\* the earliest date, " - ", the latest date, whatever the order of the list.
C17_TimeRange ==
  Rendered =>
     LET ds == Dates(messages)
         r == summary.timeRange
     IN IF messages = <<>> THEN r.label = "No messages"
        ELSE IF Cardinality(ds) = 1
             THEN r.label = "date" /\ r.from \in ds
             ELSE /\ r.label = "date - date"
                  /\ r.from \in ds /\ \A d \in ds : r.from <= d
                  /\ r.to \in ds /\ \A d \in ds : d <= r.to

\* the later of two dates comes first in the list
C17_Witness ==
  /\ Rendered
  /\ messages = <<MsgThanks, MsgCheckUrl>>
  /\ summary.timeRange = [label |-> "date - date", from |-> 0, to |-> 1]

\* two messages of one date
C17_WitnessOneDate ==
  /\ Rendered
  /\ messages = <<MsgOk, MsgCheckUrl>>
  /\ summary.timeRange = [label |-> "date", from |-> 0, to |-> 0]

\* no message
C17_WitnessEmpty ==
  /\ Rendered
  /\ messages = <<>>
  /\ summary.timeRange.label = "No messages"
  /\ summary.messageCount = 0

\* the authors of the first n messages of ms
RECURSIVE Authors(_, _)
Authors(ms, n) == IF n = 0 THEN {} ELSE Authors(ms, n - 1) \cup {ms[n].user}

\* C20: the statistics of the summary are taken over every message handed in:
\* messageCount is their number and uniqueUsers the number of distinct authors,
\* messages whose text is absent and messages in front of the 50-message window
\* of the transcript included.
C20_StatsOverAll ==
  Rendered =>
     /\ summary.messageCount = Len(messages)
     /\ summary.uniqueUsers = Cardinality(Authors(messages, Len(messages)))

\* 51 messages: the first, by an author of its own, is not in the transcript
C20_Witness ==
  /\ Rendered
  /\ messages = <<MsgThanks>> \o Fill(MsgCheckUrl, WindowSize)
  /\ Len(formattedMessages) = WindowSize
  /\ summary.messageCount = WindowSize + 1
  /\ summary.uniqueUsers = 2

\* a message whose text is absent is counted, and so is its author
C20_WitnessAbsent ==
  /\ Rendered
  /\ messages = <<MsgOk, MsgCheckUrl>>
  /\ Len(formattedMessages) = 1
  /\ summary.messageCount = 2
  /\ summary.uniqueUsers = 2

(***************************************************************************)
(* C15: a history fetch that fails.                                        *)
(***************************************************************************)
\* the catch block of getChannelMessages or of getDMMessages ran
FetchFailed ==
  \/ route = "summarize" /\ "Error fetching messages:" \in logs
  \/ route = ChatsRoute /\ "Error fetching DM messages:" \in logs

\* part_000:279, 325
NoMessagesFound ==
  [kind |-> "plain", text |-> "No messages found in the specified time period."]

\* C15: when the history fetch of summarizeChannel or summarizeSpecificDM fails,
\* the error goes no further: the fetch gives the empty list, the summary is
\* "No messages found in the specified time period.", neither users.info nor the
\* completion is called, the command goes on to the delivery, every delivery
\* attempt carries that string, and the catch block of the handler runs only if
\* that delivery failed.
C15_FetchFailure ==
  FetchFailed =>
     /\ messages = <<>>
     /\ summary = NoMessagesFound
     /\ Count(calls, "users.info") = 0
     /\ Count(calls, "chat.completions.create") = 0
     /\ prompt = NoPrompt
     /\ pc \in {"deliver", "postdm", "respond", "catch", "done"}
     /\ \A k \in 1..Len(deliveries) : deliveries[k].text.summary = NoMessagesFound
     /\ pc \in {"respond", "catch", "done"} => deliveries # <<>>
     /\ pc = "catch" => deliveries[Len(deliveries)].failed

\* the history of a channel could not be fetched, and the fixed string was posted
C15_Witness ==
  /\ route = "summarize"
  /\ FetchFailed
  /\ pc = "done"
  /\ Len(deliveries) = 1
  /\ ~deliveries[1].failed
  /\ deliveries[1].text.summary = NoMessagesFound

\* the DM with the other user could not be fetched, and the fixed string was sent
C15_WitnessDM ==
  /\ route = ChatsRoute
  /\ FetchFailed
  /\ Count(calls, "conversations.history") = 1
  /\ pc = "done"
  /\ Len(deliveries) = 1
  /\ ~deliveries[1].failed
  /\ deliveries[1].text.summary = NoMessagesFound
  /\ responses = <<[status |-> 200, body |-> SuccessJson(NoMessagesFound), sent |-> TRUE]>>

(***************************************************************************)
(* C16: the response of /summarize-my-chats.                               *)
(***************************************************************************)
\* C16: /summarize-my-chats sends {message, summary} only once
\* sendSummaryToMyself has returned without an error; when the delivery fails
\* the handler answers with status 500 and never with the success body; either
\* way the request gets exactly one response, and none before the handler is
\* done.
C16_RespondAfterDelivery ==
  route = ChatsRoute =>
     /\ Len(responses) <= 1
     /\ pc = "done" <=> Len(responses) = 1
     /\ \A k \in 1..Len(responses) :
           /\ responses[k].sent
           /\ responses[k].status \in {200, 500}
           /\ responses[k].status = 200 =>
                 /\ Len(deliveries) = 1
                 /\ ~deliveries[1].failed
                 /\ deliveries[1].target = <<"dm", myUserId>>
                 /\ deliveries[1].text.summary = summary
                 /\ responses[k].body = SuccessJson(summary)
           /\ responses[k].status = 500 =>
                 /\ responses[k].body = [error |-> "Internal server error"]
                 /\ deliveries = <<>> \/ deliveries[Len(deliveries)].failed
     /\ (\E k \in 1..Len(deliveries) : deliveries[k].failed) =>
           /\ Len(deliveries) = 1
           /\ pc \in {"catch", "done"}
           /\ pc = "done" => responses[1].status = 500

\* the summary was made, the delivery failed, and the one response is the 500
C16_Witness ==
  /\ route = ChatsRoute
  /\ pc = "done"
  /\ summary.kind = "rendered"
  /\ Len(deliveries) = 1
  /\ deliveries[1].failed
  /\ Len(responses) = 1
  /\ responses[1].status = 500

\* the summary was made and delivered, and the one response carries it
C16_WitnessSuccess ==
  /\ route = ChatsRoute
  /\ pc = "done"
  /\ summary.kind = "rendered"
  /\ Len(deliveries) = 1
  /\ ~deliveries[1].failed
  /\ responses = <<[status |-> 200, body |-> SuccessJson(summary), sent |-> TRUE]>>

(***************************************************************************)
(* C19: which messages the transcript is made of.                          *)
(***************************************************************************)
\* C19 as stated: on every summarize path the transcript is made of the 50 most
\* recent messages by timestamp, whatever order the history came in: once the
\* completion has been called, no message in front of the window of the
\* transcript is more recent than a message inside it.
C19_MostRecentFifty ==
  prompt # NoPrompt =>
     \A i \in 1..Before(messages) :
        \A j \in (Before(messages) + 1)..Len(messages) :
           messages[i].ts <= messages[j].ts

(***************************************************************************)
(* C18: the life of an acknowledged slash command.                         *)
(***************************************************************************)
\* the state of the command: 0 Received, 1 Acknowledged, 2 Processing,
\* 3 Delivered or DeliveryFailed
Stage ==
  IF deliveries # <<>> THEN 3
  ELSE IF responses = <<>> THEN 0
  ELSE IF calls = <<>> THEN 1
  ELSE 2

\* C18: where every external call returns or fails in the end, a slash command
\* that was acknowledged reaches a terminal state: there is one delivery
\* attempt, which went through (Delivered) or failed (DeliveryFailed), never a
\* second one. The command goes through Received, Acknowledged, Processing and
\* the terminal state in that order, one after the other, and makes no external
\* call once it is in the terminal state.
C18_AcknowledgedTerminates ==
  /\ [](AckFirst(variant, route) => Len(deliveries) <= 1)
  /\ [][AckFirst(variant, route) =>
          /\ Stage' \in {Stage, Stage + 1}
          /\ Stage = 3 => calls' = calls /\ deliveries' = deliveries
          /\ calls' # calls => Stage \in {1, 2}]_vars
  /\ (AckFirst(variant, route) /\ responses # <<>>) ~> (deliveries # <<>> /\ pc = "done")

\* an acknowledged command whose delivery failed is over
C18_Witness ==
  /\ AckFirst(variant, route)
  /\ pc = "done"
  /\ Stage = 3
  /\ deliveries[1].failed
  /\ summary.kind = "rendered"

\* an acknowledged command whose summary was delivered is over
C18_WitnessDelivered ==
  /\ AckFirst(variant, route)
  /\ pc = "done"
  /\ Stage = 3
  /\ ~deliveries[1].failed
  /\ summary.kind = "rendered"


(***************************************************************************)
(* C21: no retries.                                                        *)
(***************************************************************************)
\* the calls that hand the result to its target
Posts == Count(calls, "fetch") + Count(calls, "chat.postMessage")

\* C21: whatever the external calls answer, one command makes at most one
\* chat.completions.create call and at most one delivery attempt (one callback
\* POST or one chat.postMessage), and starts no external call once the delivery
\* call has returned or failed; so no target is handed a result twice.
C21_NoRetries ==
  /\ Count(calls, "chat.completions.create") <= 1
  /\ (completion.kind # "none") = (Count(calls, "chat.completions.create") = 1)
  /\ Posts <= 1
  /\ Len(deliveries) <= 1
  /\ deliveries # <<>> =>
       /\ Last(calls) \in {"fetch", "chat.postMessage", "conversations.open"}
       /\ Posts = (IF Last(calls) = "conversations.open" THEN 0 ELSE 1)

\* the completion call and the chat post both failed, and the command is over
C21_Witness ==
  /\ pc = "done"
  /\ completion.kind = "error"
  /\ Count(calls, "chat.completions.create") = 1
  /\ Len(deliveries) = 1
  /\ deliveries[1].failed
  /\ Count(calls, "chat.postMessage") = 1

\* the same on the callback of the detached task
C21_WitnessCallback ==
  /\ pc = "done"
  /\ completion.code = "rate_limit_exceeded"
  /\ Len(deliveries) = 1
  /\ deliveries[1].failed
  /\ Count(calls, "fetch") = 1

(***************************************************************************)
(* C23: what can raise in a command.                                       *)
(***************************************************************************)
\* summarizeChannel, summarizeSpecificDM or summarizeAllMyDMs has returned
Summarized == pc \in {"deliver", "postdm", "respond"} \/ deliveries # <<>>

\* what a summarize method returns is a string
IsString(sum) == sum.kind \in {"plain", "rendered"}

\* C23 as stated: summarizeChannel, summarizeSpecificDM and summarizeAllMyDMs
\* return a string whatever fails, and in a command nothing but the delivery
\* call raises: the handler's catch block and an unhandled rejection are reached
\* from a failed delivery only.
C23_OnlyDeliveryRaises ==
  /\ Summarized => IsString(summary)
  /\ pc = "catch" => (deliveries # <<>> /\ deliveries[1].failed)
  /\ unhandled => (deliveries # <<>> /\ deliveries[1].failed)

\* C23: summarizeChannel, summarizeSpecificDM and summarizeAllMyDMs return a
\* string whatever the history fetch, the conversation list, the user lookups
\* and the completion call do; in a command no step up to the return of the
\* summarize method raises, except getMyUserId on /summarize-my-chats without
\* MY_USER_ID, which rethrows a failed auth.test before any summarize method is
\* called; every other raise in a command follows a failed delivery call.
C23_SummarizeNeverThrows ==
  /\ Summarized => IsString(summary)
  /\ pc = "catch" =>
       IF deliveries = <<>>
       THEN /\ route = ChatsRoute
            /\ calls = <<"auth.test">>
            /\ "Error getting user ID:" \in logs
            /\ summary = NoSummary
       ELSE deliveries[1].failed
  /\ unhandled => (deliveries # <<>> /\ deliveries[1].failed)

\* a history fetch and the completion call failed, and the summary is handed to
\* the delivery
C23_Witness ==
  /\ pc = "deliver"
  /\ "Error fetching messages:" \in logs
  /\ completion.kind = "error"
  /\ summary.kind = "rendered"
  /\ deliveries = <<>>

\* the conversation list failed
C23_WitnessList ==
  /\ pc = "deliver"
  /\ "Error fetching all DMs:" \in logs
  /\ summary.kind = "plain"

\* getMyUserId raised
C23_WitnessIdentity ==
  /\ pc = "catch"
  /\ deliveries = <<>>
  /\ route = ChatsRoute

(***************************************************************************)
(* C24: only eligible messages are processed.                              *)
(***************************************************************************)
\* a message with a text and without a bot id
Eligible(m) == m.text # <<>> /\ m.bot_id = NoBot

Members(seq) == {seq[i] : i \in 1..Len(seq)}

\* the conversation list was read: the call is summarizeAllMyDMs
AllPath == calls # <<>> /\ calls[1] = "conversations.list"

\* the history of the one conversation was read
OneFetched == ~AllPath /\ Count(calls, "conversations.history") = 1

\* C24: on every fetch path the messages handed to generatePersonalSummary, and
\* from there to formatMessagesForAI and the completion request, are eligible
\* messages of the answers of conversations.history, each no more often than it
\* was answered; of one conversation they are all its eligible messages; a
\* bot's text is never in the transcript, and the message count and the user
\* count of the summary are taken over these messages alone.
C24_OnlyEligible ==
  /\ \A i \in 1..Len(messages) : Eligible(messages[i])
  /\ \A d \in 1..Len(allDMs) :
       \A i \in 1..Len(allDMs[d][2]) : Eligible(allDMs[d][2][i])
  /\ \A m \in Members(messages) : Count(messages, m) <= CopiesIn(m, fetched)
  /\ OneFetched =>
       \A m \in BagToSet(fetched) :
         Count(messages, m) = (IF Eligible(m) THEN CopiesIn(m, fetched) ELSE 0)
  /\ Len(formattedMessages) <= Len(messages)
  /\ ~Contains(join(formattedMessages), TextDeploy)
  /\ ~Contains(prompt.transcript, TextDeploy)
  /\ summary.kind = "rendered" =>
       /\ summary.messageCount = Len(messages)
       /\ summary.uniqueUsers = Cardinality({m.user : m \in Members(messages)})
       /\ summary.uniqueUsers <=
            Cardinality({m.user : m \in {f \in BagToSet(fetched) : Eligible(f)}})

\* summarizeChannel or summarizeSpecificDM on an answer of four messages, a
\* bot's post and a message without text among them: two messages are counted
C24_Witness ==
  /\ pc = "returned"
  /\ OneFetched
  /\ BagToSet(fetched) = Members(NoisyHistory)
  /\ summary.kind = "rendered"
  /\ summary.messageCount = 2
  /\ summary.uniqueUsers = 2
  /\ Len(formattedMessages) = 2

\* summarizeAllMyDMs: one conversation holds a bot's post, the other a message
C24_WitnessAll ==
  /\ pc = "returned"
  /\ AllPath
  /\ BagToSet(fetched) = {MsgBot, MsgCheckUrl}
  /\ summary.kind = "rendered"
  /\ summary.messageCount = 1

\* getDMMessages on an answer that holds nothing eligible
C24_WitnessNothing ==
  /\ pc = "returned"
  /\ calls = <<"conversations.open", "conversations.history">>
  /\ BagToSet(fetched) = {MsgEmpty}
  /\ summary.kind = "plain"

(***************************************************************************)
(* C22: two commands at once.                                              *)
(***************************************************************************)
\* where a command's result is to go by its own parameters
OwnTarget(c) == deliveryTarget(variant, c.route, c.req, c.req.user_id)

\* the summary by the command's own messages and its own completion
OwnSummary(c) ==
  IF c.messages # <<>> THEN renderSummary(c.messages, c.aiSummary)
  ELSE IF c.route = "summarize"
  THEN [kind |-> "plain", text |-> "No messages found in the specified time period."]
  ELSE [kind |-> "plain", text |-> "No DM messages found in the specified time period."]

\* what the command c holds and has delivered comes from its own parameters and
\* from the answers to its own calls
Own(c) ==
  /\ c.self # 0 => summarizers[c.self].myUserId = c.req.user_id
  /\ Len(c.formattedMessages) <= Len(c.messages)
  /\ c.completion.kind # "none" =>
       /\ c.prompt.transcript = join(c.formattedMessages)
       /\ c.aiSummary = completionSummary(c.completion)
  /\ c.deliveries # <<>> =>
       /\ Len(c.deliveries) = 1
       /\ c.deliveries[1].target = OwnTarget(c)
       /\ c.deliveries[1].text = deliveryText(variant, c.route, c.req, OwnSummary(c))

\* a step of formatMessagesForAI in the running command leaves the waiting
\* command as it is and adds at most a line made of the running command's own
\* message
OwnLine ==
  (pc = "format" /\ other' = other) =>
    \/ formattedMessages' = formattedMessages
    \/ /\ Len(formattedMessages') = Len(formattedMessages) + 1
       /\ SubSeq(formattedMessages', 1, Len(formattedMessages)) = formattedMessages
       /\ EndsWith(Last(formattedMessages'), cleanText(messages[idx].text))

\* the command c has not delivered to the target of the command d
NotTo(c, d) ==
  (c.deliveries # <<>> /\ OwnTarget(c) # OwnTarget(d)) =>
    c.deliveries[1].target # OwnTarget(d)

\* C22: however two commands are interleaved at their awaits, each has its own
\* summarizer object, and what each holds and delivers (the transcript, the
\* completion request, the summary text, the target) comes from its own request
\* and the answers to its own calls; neither delivers to the other's target.
C22_Independent ==
  /\ [](other # NoCommand =>
         /\ Own(Command)
         /\ Own(other)
         /\ (self # 0 /\ other.self # 0) => self # other.self
         /\ NotTo(Command, other)
         /\ NotTo(other, Command))
  /\ [][OwnLine]_vars

\* the command that was started second has sent its personal summary to its
\* requester while the first still waits for its completion
C22_Witness ==
  /\ other.self = 1
  /\ self = 2
  /\ other.route = "my-summary"
  /\ other.pc = "complete"
  /\ route = "my-summary"
  /\ pc = "done"
  /\ ~deliveries[1].failed
  /\ deliveries[1].target = <<"dm", "U2">>

\* both commands are over, each delivered, with different summaries
C22_WitnessBoth ==
  /\ pc = "done"
  /\ other.pc = "done"
  /\ deliveries # <<>> /\ ~deliveries[1].failed
  /\ other.deliveries # <<>> /\ ~other.deliveries[1].failed
  /\ summary.kind = "rendered"
  /\ other.summary.kind = "rendered"
  /\ summary.aiSummary # other.summary.aiSummary
  /\ deliveries[1].target # other.deliveries[1].target

====
